---- MODULE Spec2Model ----
(***************************************************************************)
(* Model of the S.S. Syntax custom-command bot: the Redis-backed rate      *)
(* limiter (cooldown keys, throughput counters), the messageCreate         *)
(* handlers of the several bot entry points, the sandbox runners and the   *)
(* guild command cache of the dashboard server.                            *)
(*                                                                         *)
(* The module holds several specifications over one set of variables; each *)
(* one moves the variables of one subsystem and leaves the others at their *)
(* initial values:                                                         *)
(*   SpecCooldown, SpecCooldownSeq  per-(command,user) cooldown admission  *)
(*   SpecRate                       checkRateLimit and its handler         *)
(*   SpecMsg, SpecMsgFair           one message through a command handler  *)
(*   SpecCache                      loadGuildCommands and dashboard writes *)
(*   SpecRateGuilds                 checkRateLimit, one user, two guilds   *)
(*   SpecMatch                      trigger evaluation of the handlers     *)
(*   SpecSave                       the save-command routes                *)
(*   SpecLog                        logCommandExecution                    *)
(*   SpecRateFair                   SpecRate, every step taken in the end  *)
(*   SpecOutput                     the reply paths and their truncation   *)
(*   SpecRun, SpecRunFair           runPython / runGo of concurrent        *)
(*                                  messages                               *)
(*   SpecKill                       the handler with the kill switch       *)
(*   SpecSess                       createSession and validateSession      *)
(***************************************************************************)
EXTENDS Integers, Sequences, FiniteSets, TLC

VARIABLES
    now,        \* wall clock, milliseconds (Date.now() / the Redis server clock)
    kv,         \* Redis string keys with a TTL: key -> expiry instant (0 = no such key)
    apc,        \* cooldown admission attempt -> "idle" | "write" | "done"
    auser,      \* attempt -> the user it is made for
    apath,      \* attempt -> "rw" (isOnCooldown + setCooldown) | "nx" (checkRedisRateLimit)
    atime,      \* attempt -> instant of its admission decision (its first store operation)
    afire,      \* attempt -> instant at which it recorded its firing (-1 = not recorded)
    ares,       \* attempt -> "none" | "admit" | "deny"
    cooldown,   \* the command's configured cooldown, milliseconds (command.cooldown)
    cnt,        \* Redis counters: key -> value (0 = no such key)
    ttl,        \* Redis counters: key -> time left to live, in clock ticks (0 = no TTL)
    epoch,      \* history: key -> how many times the key has been created
    adm,        \* history: key -> incarnation of the key -> calls counted in that
                \*   incarnation for which checkRateLimit returned true
    cpc,        \* checkRateLimit caller -> position in the part_000 handler
    cuser,      \* caller -> message.author.id
    cguild,     \* caller -> message.guild.id
    cuc,        \* caller -> userCount (0 = not read yet)
    cgc,        \* caller -> guildCount (0 = not read yet)
    cepU,       \* history: caller -> epoch of the user key its incr fell in
    cepG,       \* history: caller -> epoch of the guild key its incr fell in
    cret,       \* caller -> what checkRateLimit gave: "none" | "true" | "false" | "threw"
    cout,       \* caller -> what the handler did:
                \*   "none" | "ignored" | "handled" | "limited" | "rejected"
    cfail,      \* history: caller -> a redis call of its checkRateLimit failed
    hv,         \* which bot handles the message:
                \*   "gate" (part_000:20) | "part000" (part_000:119) | "part001" | "bot" | "index"
    msg,        \* the message: [bot, hasGuild, content, roles, channel]
    cmds,       \* Redis hash commands:<guildId>, in HGETALL order: sequence of stored records
    guildPrefix,\* Redis key prefix:<guildId> (<<>> = not set)
    hpc,        \* position of the messageCreate handler
    hidx,       \* index of the command the handler's loop is at
    hlist,      \* the commands the handler got from the store
    hfail,      \* history: the handler's read of the command store failed
    units,      \* running subprocesses (exec): set of [idx, lang, code]
    execs,      \* history: ids of the commands whose execution was started, in order
    replies,    \* replies sent to the channel, in order: [id, kind]
    storeReads, \* history: number of store reads the handler issued
    logs,       \* Redis list logs:<guildId>, newest first: [id, success]
    hlog,       \* the audit entry the index.js handler is writing: [id, success, second]
    hprefix,    \* part_000: the handler's globalPrefix
    guildCache, \* index.js: the guildCache entry of the guild ([timestamp, data])
    reqQ,       \* Redis connection: commands sent and not yet run by the server
    repQ,       \* Redis connection: replies not yet delivered to their callers
    lpc,        \* call of loadGuildCommands -> "idle" | "await" | "done"
    lret,       \* call of loadGuildCommands -> what it returned
    lfail,      \* history: call -> its hgetall was rejected
    lmust,      \* history: call -> ids created before it started and not being deleted
    lmustNot,   \* history: call -> ids whose delete completed before it started
    wpc,        \* dashboard write -> "idle" | "await" | "done"
    created,    \* history: ids whose POST has completed
    delStarted, \* history: ids for which a DELETE has begun
    delDone,    \* history: ids whose DELETE has completed
    sv,         \* which program serves the save requests:
                \*   "part000" | "part001" | "bot" | "index" | "auth" (addCommand)
    spc,        \* save request -> "idle" | "hlen" | "hset" | "done"
    sreq,       \* save request -> its command: [key, codeLen, isEdit]
    sres,       \* save request -> "none" | "saved" | "refused" | "error"
    seen,       \* history: user -> guild -> messages of the user in the guild that
                \*   checkRateLimit has counted (up to USER_MAX + 1)
    cwhy,       \* history: caller that was denied -> [own, guild]: the messages of its
                \*   user counted in its guild, and its guildCount
    gpc,        \* logCommandExecution call -> "idle" | "lpush" | "ltrim"
    gseq,       \* history: number of entries pushed onto the log by those calls
    gfail,      \* history: a redis call of logCommandExecution was rejected
    opath,      \* reply path an output takes: "send" | "reply" (sandbox of index.js),
                \*   "bot" | "part000" | "part001" (replies of those handlers)
    otext,      \* the output the command produced, a string
    osent,      \* what was handed to Discord for it (NotSent before that)
    xpc,        \* execution of part_001 -> "idle" | "started" (subprocess spawned) |
                \*   "compiled" (go run has read its source; python is running) |
                \*   "done" (callback ran, promise resolved) | "threw" (runGo threw)
    xlang,      \* execution -> "Python" | "Golang"
    xkind,      \* execution -> "ok" (the program ends) | "loop" (it never ends)
    xfile,      \* execution -> the number in its temp file name, temp_<Date.now()>.go
    xran,       \* history: execution -> whose source its go run compiled (0 = none,
                \*   -1 = the file was missing)
    files,      \* the working directory: number in the name -> whose source the file
                \*   holds (0 = no such file)
    enabled,    \* the kill switch: what isEnabled() returns
    kpc,        \* message at the part_000:20 handler -> "idle" | "disable" (awaiting
                \*   disableGlobally) | "rate" (awaiting checkRateLimit) | "handle"
                \*   (awaiting handleMessage) | "done"
    kstop,      \* history: messages that were the emergency stop
    ktouched,   \* history: messages whose checkRateLimit incremented the counters
    khandled,   \* history: messages passed to handleMessage
    kreplied,   \* history: messages answered "Rate limit exceeded"
    scache,     \* index.js sessionCache, for one session id: [ipAddress, expiresAt] or NoSession
    sredis,     \* Redis key session:<id>: [data, ttlEnd], data as in scache, or NoStored
    sip,        \* history: the IP address the session was created with ("none" before)
    cspc,       \* createSession: "idle" | "setex" (awaiting redis.setex) | "done"
    vpc,        \* validateSession: "idle" | "del" | "get" | "delStored" | "setex"
    vip,        \* validateSession: the ipAddress argument ("none" = not given)
    vgot,       \* validateSession: the session parsed from Redis
    vret        \* what the last validateSession returned: "none" | "null" | "session"

cdVars == <<kv, apc, auser, apath, atime, afire, ares, cooldown>>
rlVars == <<cnt, ttl, epoch, adm, seen>>
callerVars == <<cpc, cuser, cguild, cuc, cgc, cepU, cepG, cret, cout, cfail, cwhy>>
msgVars == <<hv, msg, cmds, guildPrefix, hpc, hidx, hlist, hfail, units, execs, replies,
             storeReads, logs, hlog, hprefix>>
cacheVars == <<guildCache, reqQ, repQ, lpc, lret, lfail, lmust, lmustNot, wpc, created,
               delStarted, delDone>>
saveVars == <<sv, spc, sreq, sres>>
logVars == <<gpc, gseq, gfail>>
outVars == <<opath, otext, osent>>
runVars == <<xpc, xlang, xkind, xfile, xran, files>>
killVars == <<enabled, kpc, kstop, ktouched, khandled, kreplied>>
sessVars == <<scache, sredis, sip, cspc, vpc, vip, vgot, vret>>
extVars == <<outVars, runVars, killVars, sessVars>>
coreVars == <<now, cdVars, rlVars, callerVars, msgVars, cacheVars, saveVars, logVars>>
vars == <<coreVars, extVars>>

\* what the actions of one subsystem leave alone
cdFrame == <<rlVars, callerVars, msgVars, cacheVars, saveVars, logVars, extVars>>
rateFrame == <<cdVars, msgVars, cacheVars, saveVars, logVars, extVars>>
msgFrame == <<now, cdVars, rlVars, callerVars, saveVars, logVars, extVars>>

(***************************************************************************)
(* Bounds of the model.                                                    *)
(***************************************************************************)
NAttempts == 3      \* admission attempts per run
MaxNow == 3000      \* the clock stops here
ClockStep == 500    \* the clock advances in steps of this many milliseconds
NLoaders == 3       \* calls of loadGuildCommands per run
NWriters == 3       \* dashboard writes per run
NSavers == 3        \* save requests per run
NLogCalls == 3      \* concurrent calls of logCommandExecution
MaxPushed == 5      \* entries pushed onto the log per run
MaxOutLen == 7      \* longest output of a command, characters
NRuns == 3          \* executions of Python / Golang commands per run
MaxRunNow == 2      \* the clock of those executions stops here, milliseconds
NKillMessages == 4  \* messages at the handler with the kill switch
MaxSessNow == 4     \* the clock of the sessions stops here
NKeys == 3          \* distinct commands the save requests are about
MaxCacheNow == 400000   \* the cache's clock stops here
CacheClockStep == 200000   \* and advances in steps of this many milliseconds
NCallers == 3       \* messages that reach checkRateLimit per run

\* RATE_LIMIT of ./config, which is not among the sources: the ceilings and the
\* windows are parameters of the model, chosen small (the windows in clock ticks).
USER_MAX == 2
GUILD_MAX == 2
USER_WINDOW == 1
GUILD_WINDOW == 2

\* the per-guild maximum of stored commands (100 in part_000, MAX_COMMANDS_PER_SERVER
\* in auth.js) and MAX_COMMAND_LENGTH of ./config, chosen small
MAX_COMMANDS == 2
MAX_COMMAND_LENGTH == 2

Attempts == 1..NAttempts
UserIds == {"u1", "u2"}
CommandId == "c1"
Cooldowns == {1000, 1500, 2000}
Callers == 1..NCallers
Loaders == 1..NLoaders
Writers == 1..NWriters
Savers == 1..NSavers
LogCalls == 1..NLogCalls
Runs == 1..NRuns
KillMessages == 1..NKillMessages
GuildIds == {"g1", "g2"}

(***************************************************************************)
(* Redis primitives on expiring string keys.                               *)
(***************************************************************************)
MsPerSec == 1000

\* `cooldown:${commandId}:${userId}`
CooldownKey(c, u) == <<"cooldown", c, u>>
\* `ratelimit:${userId}:${cmdId}`
RateLimitKey(u, c) == <<"ratelimit", u, c>>

KvKeys == {CooldownKey(CommandId, u) : u \in UserIds}
            \cup {RateLimitKey(u, CommandId) : u \in UserIds}

\* EXISTS key: an expired key is gone
RedisExists(store, key, t) == store[key] > t

\* SETEX key seconds value: the expiry argument is in seconds
RedisSetex(store, key, seconds, t) == [store EXCEPT ![key] = t + seconds * MsPerSec]

\* Math.ceil(a / b) for positive integers
CeilDiv(a, b) == (a + b - 1) \div b

\* setCooldown(commandId, userId, cooldown): redis.setex(key, cooldown, '1')
SetCooldownStore(store, c, u, cd, t) == RedisSetex(store, CooldownKey(c, u), cd, t)

\* isOnCooldown(commandId, userId): redis.exists(key)
IsOnCooldownValue(store, c, u, t) == RedisExists(store, CooldownKey(c, u), t)

\* checkRedisRateLimit: ttl = Math.ceil(cooldown / 1000)
RateLimitTtl(cd) == CeilDiv(cd, MsPerSec)

(***************************************************************************)
(* Redis primitives on counters.  A key whose TTL has run out is gone: the *)
(* next INCR creates it again at 1, without a TTL.                         *)
(***************************************************************************)
\* `ratelimit:user:${userId}`
UserKey(u) == <<"ratelimit", "user", u>>
\* `ratelimit:guild:${guildId}`
GuildKey(g) == <<"ratelimit", "guild", g>>

CntKeys == {UserKey(u) : u \in UserIds} \cup {GuildKey(g) : g \in GuildIds}

RedisLive(key) == cnt[key] > 0

\* INCR key: the value after the increment
RedisIncrValue(key) == IF RedisLive(key) THEN cnt[key] + 1 ELSE 1

\* INCR key: the counter, its TTL and the key's incarnation afterwards
RedisIncr(key) ==
    /\ cnt' = [cnt EXCEPT ![key] = RedisIncrValue(key)]
    /\ ttl' = [ttl EXCEPT ![key] = IF RedisLive(key) THEN @ ELSE 0]
    /\ epoch' = [epoch EXCEPT ![key] = IF RedisLive(key) THEN @ ELSE @ + 1]

\* PEXPIRE key ms: sets the TTL of a key that exists
RedisPexpire(key, ms) ==
    /\ ttl' = [ttl EXCEPT ![key] = IF RedisLive(key) THEN ms ELSE @]
    /\ UNCHANGED <<cnt, epoch>>

\* (mutant) the two ceilings joined by || instead of &&
RateLimitAllowedEither(uc, gc) == uc <= USER_MAX \/ gc <= GUILD_MAX

\* return userCount <= RATE_LIMIT.USER.MAX && guildCount <= RATE_LIMIT.GUILD.MAX
RateLimitAllowed(uc, gc) == uc <= USER_MAX /\ gc <= GUILD_MAX

(***************************************************************************)
(* Strings are sequences of characters; the operators below are the        *)
(* String.prototype methods the handlers use.                              *)
(***************************************************************************)
\* s.startsWith(p)
StartsWith(s, p) == Len(p) <= Len(s) /\ SubSeq(s, 1, Len(p)) = p

\* s.includes(p)
Includes(s, p) == \E i \in 0..(Len(s) - Len(p)) : SubSeq(s, i + 1, i + Len(p)) = p

LowerChar(c) == IF c = "P" THEN "p" ELSE IF c = "Q" THEN "q" ELSE c

\* s.toLowerCase()
ToLowerCase(s) == [i \in 1..Len(s) |-> LowerChar(s[i])]

\* s.slice(n)
Slice(s, n) == SubSeq(s, n + 1, Len(s))

RECURSIVE TrimStart(_)
TrimStart(s) == IF s # <<>> /\ s[1] = " " THEN TrimStart(Tail(s)) ELSE s

RECURSIVE TrimEnd(_)
TrimEnd(s) == IF s # <<>> /\ s[Len(s)] = " " THEN TrimEnd(SubSeq(s, 1, Len(s) - 1)) ELSE s

\* s.trim()
Trim(s) == TrimEnd(TrimStart(s))

RECURSIVE FirstWord(_)
\* s.split(/ +/)[0]
FirstWord(s) == IF s = <<>> \/ s[1] = " " THEN <<>> ELSE <<s[1]>> \o FirstWord(Tail(s))

\* new RegExp(pattern, 'i') throws on a pattern that does not compile; of the
\* characters of the model only an unclosed "(" makes one
RegExpCompiles(pattern) == \A i \in 1..Len(pattern) : pattern[i] # "("

\* new RegExp(pattern, 'i').test(s), for a pattern of literal characters
RegExpTest(pattern, s) == Includes(ToLowerCase(s), ToLowerCase(pattern))

(***************************************************************************)
(* Stored commands and messages.                                           *)
(*   raw   "json" | "garbage": whether JSON.parse of the hash value works  *)
(*   code  what running the code does: "ok" (produces output and ends),    *)
(*         "throw" (throws / exits with an error), "loop" (never stops by  *)
(*         itself: while(true){} or its Python/Go like), "stall" (a        *)
(*         JavaScript value that is a promise which never settles)         *)
(***************************************************************************)
MaxCmds == 2        \* commands stored for the guild

Handlers == {"gate", "part000", "part001", "bot", "index"}

Shapes ==
    { [type |-> "Command (prefix)", trigger |-> <<"p">>, name |-> <<"p">>],
      [type |-> "Regex (Case Insensitive)", trigger |-> <<"(">>, name |-> <<"q">>] }

Programs ==
    { <<"JavaScript", "ok">>, <<"JavaScript", "throw">>, <<"JavaScript", "loop">>,
      <<"JavaScript", "stall">>,
      <<"Python", "ok">>, <<"Python", "throw">>, <<"Python", "loop">>,
      <<"Golang", "ok">>, <<"Golang", "loop">> }

StoredCommand(raw, shape, prog) ==
    [raw |-> raw, type |-> shape.type, trigger |-> shape.trigger, name |-> shape.name,
     prefix |-> <<>>, lang |-> prog[1], code |-> prog[2], roles |-> {}, channels |-> {}]

Garbage == StoredCommand("garbage", CHOOSE s \in Shapes : s.type = "Command (prefix)",
                         <<"JavaScript", "ok">>)

CmdPool == {StoredCommand("json", s, p) : s \in Shapes, p \in Programs} \cup {Garbage}

\* the hash values with their keys: the key of the i-th field is i
WithIds(l) == [i \in DOMAIN l |-> [id |-> i] @@ l[i]]

CommandLists == UNION {[1..n -> CmdPool] : n \in 0..MaxCmds}

Contents == {<<"!", "p">>, <<"x">>}

Messages ==
    [bot : BOOLEAN, hasGuild : BOOLEAN, content : Contents, roles : {{"r1"}},
     channel : {"ch1"}, user : {"u1"}, guild : {"g1"}]

NoMessage ==
    [bot |-> FALSE, hasGuild |-> TRUE, content |-> <<>>, roles |-> {}, channel |-> "ch1",
     user |-> "u1", guild |-> "g1"]

NoLog == [id |-> 0, success |-> FALSE, second |-> FALSE]

NoEntry == [timestamp |-> -1, data |-> <<>>]

MsgIdle ==
    /\ hv = "gate"
    /\ msg = NoMessage
    /\ cmds = <<>>
    /\ guildPrefix = <<>>
    /\ hpc = "idle"
    /\ hidx = 0
    /\ hlist = <<>>
    /\ hprefix = <<>>
    /\ hfail = FALSE
    /\ units = {}
    /\ execs = <<>>
    /\ replies = <<>>
    /\ storeReads = 0
    /\ logs = <<>>
    /\ hlog = NoLog

CacheIdle ==
    /\ guildCache = NoEntry

CacheProcIdle ==
    /\ reqQ = <<>>
    /\ repQ = <<>>
    /\ lpc = [l \in Loaders |-> "idle"]
    /\ lret = [l \in Loaders |-> <<>>]
    /\ lfail = [l \in Loaders |-> FALSE]
    /\ lmust = [l \in Loaders |-> {}]
    /\ lmustNot = [l \in Loaders |-> {}]
    /\ wpc = [w \in Writers |-> "idle"]
    /\ created = {}
    /\ delStarted = {}
    /\ delDone = {}

NoRequest == [key |-> 0, codeLen |-> 0, isEdit |-> FALSE]

SaveIdle ==
    /\ sv = "part000"
    /\ spc = [s \in Savers |-> "idle"]
    /\ sreq = [s \in Savers |-> NoRequest]
    /\ sres = [s \in Savers |-> "none"]

LogIdle ==
    /\ gpc = [g \in LogCalls |-> "idle"]
    /\ gseq = 0
    /\ gfail = FALSE

NotSent == <<"<none>">>

OutIdle ==
    /\ opath = "send"
    /\ otext = <<>>
    /\ osent = NotSent

RunIdle ==
    /\ xpc = [i \in Runs |-> "idle"]
    /\ xlang = [i \in Runs |-> "Python"]
    /\ xkind = [i \in Runs |-> "ok"]
    /\ xfile = [i \in Runs |-> 0]
    /\ xran = [i \in Runs |-> 0]
    /\ files = [t \in 0..MaxRunNow |-> 0]

KillIdle ==
    /\ enabled = TRUE
    /\ kpc = [m \in KillMessages |-> "idle"]
    /\ kstop = {}
    /\ ktouched = {}
    /\ khandled = {}
    /\ kreplied = {}

NoSession == [ipAddress |-> "none", expiresAt |-> -1]

NoStored == [data |-> NoSession, ttlEnd |-> -1]

SessIdle ==
    /\ scache = NoSession
    /\ sredis = NoStored
    /\ sip = "none"
    /\ cspc = "idle"
    /\ vpc = "idle"
    /\ vip = "none"
    /\ vgot = NoSession
    /\ vret = "none"

ExtIdle ==
    /\ OutIdle
    /\ RunIdle
    /\ KillIdle
    /\ SessIdle

(***************************************************************************)
(* Trigger evaluation of each handler.                                     *)
(***************************************************************************)
\* part_001: const prefix = cmd.prefix || "!"
CmdPrefix(cmd) == IF cmd.prefix # <<>> THEN cmd.prefix ELSE <<"!">>

\* part_001: the if / else if chain that sets `triggered`
Part001Triggered(cmd, content) ==
    IF cmd.type = "Command (prefix)"
       THEN StartsWith(content, CmdPrefix(cmd) \o cmd.trigger)
    ELSE IF cmd.type = "Starts with"
       THEN StartsWith(ToLowerCase(content), ToLowerCase(cmd.trigger))
    ELSE IF cmd.type = "Contains"
       THEN Includes(ToLowerCase(content), ToLowerCase(cmd.trigger))
    ELSE IF cmd.type = "Regex (Case Insensitive)"
       THEN RegExpTest(cmd.trigger, content)
    ELSE FALSE

\* part_001: new RegExp(cmd.trigger, 'i') throws
Part001TriggerThrows(cmd) ==
    cmd.type = "Regex (Case Insensitive)" /\ ~RegExpCompiles(cmd.trigger)

\* part_000: const globalPrefix = await redis.get(...) || "!"
GlobalPrefix(value) == IF value # <<>> THEN value ELSE <<"!">>

\* part_000: the if / else if chain that sets `match`
Part000Match(cmd, content, globalPrefix) ==
    LET trigger == ToLowerCase(cmd.trigger)
        lc == ToLowerCase(content)
    IN  \/ cmd.type = "Command (prefix)" /\ StartsWith(lc, globalPrefix \o trigger)
        \/ cmd.type = "Exact Match" /\ lc = trigger
        \/ cmd.type = "Starts with" /\ StartsWith(lc, trigger)

\* bot.js: message.content.startsWith('!' + cmd.name)
BotTriggered(cmd, content) == StartsWith(content, <<"!">> \o cmd.name)

\* index.js: content.slice(prefix.length).trim().split(/ +/).shift().toLowerCase()
IndexCommandName(content) == ToLowerCase(FirstWord(Trim(Slice(content, 1))))

\* index.js: commands.find(cmd => cmd.name === commandName): index of the first, 0 if none
IndexFind(list, commandName) ==
    IF \E i \in 1..Len(list) : list[i].name = commandName
       THEN CHOOSE i \in 1..Len(list) :
                /\ list[i].name = commandName
                /\ \A j \in 1..(i - 1) : list[j].name # commandName
       ELSE 0

RestrictedByRoleOnly(cmd, m) == cmd.roles # {} /\ cmd.roles \cap m.roles = {}

\* cmd.roles?.length && !member.roles.cache.some(r => cmd.roles.includes(r.id)),
\* cmd.channels?.length && !cmd.channels.includes(message.channel.id)
Restricted(cmd, m) ==
    \/ cmd.roles # {} /\ cmd.roles \cap m.roles = {}
    \/ cmd.channels # {} /\ m.channel \notin cmd.channels

\* index.js loadGuildCommands: the values that JSON.parse accepts, in order
RECURSIVE ParsedCommands(_)
ParsedCommands(l) ==
    IF l = <<>> THEN <<>>
    ELSE (IF Head(l).raw = "json" THEN <<Head(l)>> ELSE <<>>) \o ParsedCommands(Tail(l))

CACHE_TTL == 5 * 60 * 1000

\* index.js loadGuildCommands: guildCache.has(key) && Date.now() - cached.timestamp < TTL
CacheHit(entry, t) == entry # NoEntry /\ t - entry.timestamp < CACHE_TTL

(***************************************************************************)
(* Initial values of each subsystem.                                       *)
(***************************************************************************)
NoDenial == [own |-> 0, guild |-> 0]

RateIdle ==
    /\ cnt = [k \in CntKeys |-> 0]
    /\ ttl = [k \in CntKeys |-> 0]
    /\ epoch = [k \in CntKeys |-> 0]
    /\ adm = [k \in CntKeys |-> [e \in 1..NCallers |-> 0]]
    /\ cpc = [p \in Callers |-> "idle"]
    /\ cuser = [p \in Callers |-> "u1"]
    /\ cguild = [p \in Callers |-> "g1"]
    /\ cuc = [p \in Callers |-> 0]
    /\ cgc = [p \in Callers |-> 0]
    /\ cepU = [p \in Callers |-> 0]
    /\ cepG = [p \in Callers |-> 0]
    /\ cret = [p \in Callers |-> "none"]
    /\ cout = [p \in Callers |-> "none"]
    /\ cfail = [p \in Callers |-> FALSE]
    /\ seen = [u \in UserIds |-> [g \in GuildIds |-> 0]]
    /\ cwhy = [p \in Callers |-> NoDenial]

CooldownIdle ==
    /\ kv = [k \in KvKeys |-> 0]
    /\ apc = [a \in Attempts |-> "idle"]
    /\ auser = [a \in Attempts |-> "u1"]
    /\ apath = [a \in Attempts |-> "rw"]
    /\ atime = [a \in Attempts |-> 0]
    /\ afire = [a \in Attempts |-> -1]
    /\ ares = [a \in Attempts |-> "none"]

(***************************************************************************)
(* Cooldown admission.  An attempt on the read/write path awaits           *)
(* isOnCooldown and then, when the key is absent, awaits setCooldown; an   *)
(* attempt on the SET-NX path is the single call of checkRedisRateLimit.   *)
(***************************************************************************)
CoreIdle ==
    /\ now = 0
    /\ CooldownIdle
    /\ cooldown = 1000
    /\ RateIdle
    /\ MsgIdle
    /\ CacheIdle
    /\ CacheProcIdle
    /\ SaveIdle
    /\ LogIdle

InitCooldown ==
    /\ now = 0
    /\ CooldownIdle
    /\ cooldown \in Cooldowns
    /\ RateIdle
    /\ MsgIdle
    /\ CacheIdle
    /\ CacheProcIdle
    /\ SaveIdle
    /\ LogIdle
    /\ ExtIdle

\* await isOnCooldown(commandId, userId)
IsOnCooldown(a, u) ==
    /\ apc[a] = "idle"
    /\ auser' = [auser EXCEPT ![a] = u]
    /\ apath' = [apath EXCEPT ![a] = "rw"]
    /\ atime' = [atime EXCEPT ![a] = now]
    /\ IF IsOnCooldownValue(kv, CommandId, u, now)
          THEN /\ apc' = [apc EXCEPT ![a] = "done"]
               /\ ares' = [ares EXCEPT ![a] = "deny"]
          ELSE /\ apc' = [apc EXCEPT ![a] = "write"]
               /\ ares' = ares
    /\ UNCHANGED <<now, kv, afire, cooldown, cdFrame>>

\* await setCooldown(commandId, userId, cooldown)
SetCooldown(a) ==
    /\ apc[a] = "write"
    /\ kv' = SetCooldownStore(kv, CommandId, auser[a], cooldown, now)
    /\ afire' = [afire EXCEPT ![a] = now]
    /\ ares' = [ares EXCEPT ![a] = "admit"]
    /\ apc' = [apc EXCEPT ![a] = "done"]
    /\ UNCHANGED <<now, auser, apath, atime, cooldown, cdFrame>>

\* checkRedisRateLimit(userId, cmdId, cooldown): redis.set(key, Date.now(), 'EX', ttl, 'NX')
CheckRedisRateLimit(a, u) ==
    /\ apc[a] = "idle"
    /\ auser' = [auser EXCEPT ![a] = u]
    /\ apath' = [apath EXCEPT ![a] = "nx"]
    /\ atime' = [atime EXCEPT ![a] = now]
    /\ apc' = [apc EXCEPT ![a] = "done"]
    /\ IF RedisExists(kv, RateLimitKey(u, CommandId), now)
          THEN /\ ares' = [ares EXCEPT ![a] = "deny"]
               /\ UNCHANGED <<kv, afire>>
          ELSE /\ ares' = [ares EXCEPT ![a] = "admit"]
               /\ kv' = RedisSetex(kv, RateLimitKey(u, CommandId), RateLimitTtl(cooldown), now)
               /\ afire' = [afire EXCEPT ![a] = now]
    /\ UNCHANGED <<now, cooldown, cdFrame>>

\* time passes
AdvanceClock ==
    /\ now + ClockStep <= MaxNow
    /\ now' = now + ClockStep
    /\ UNCHANGED <<cdVars, cdFrame>>

NextCooldown ==
    \/ \E a \in Attempts, u \in UserIds : IsOnCooldown(a, u)
    \/ \E a \in Attempts : SetCooldown(a)
    \/ \E a \in Attempts, u \in UserIds : CheckRedisRateLimit(a, u)
    \/ AdvanceClock

SpecCooldown == InitCooldown /\ [][NextCooldown]_vars

\* The same attempts made one after the other: no attempt starts while another
\* one is between its read and its write.
NoAttemptInFlight == \A b \in Attempts : apc[b] # "write"

SeqIsOnCooldown(a, u) == NoAttemptInFlight /\ IsOnCooldown(a, u)

SeqCheckRedisRateLimit(a, u) == NoAttemptInFlight /\ CheckRedisRateLimit(a, u)

NextCooldownSeq ==
    \/ \E a \in Attempts, u \in UserIds : SeqIsOnCooldown(a, u)
    \/ \E a \in Attempts : SetCooldown(a)
    \/ \E a \in Attempts, u \in UserIds : SeqCheckRedisRateLimit(a, u)
    \/ AdvanceClock

SpecCooldownSeq == InitCooldown /\ [][NextCooldownSeq]_vars

(***************************************************************************)
(* The part_000 bot: messageCreate -> checkRateLimit -> handleMessage.     *)
(* Each await of a redis call is one step: the command runs on the server, *)
(* or the call rejects because the store is unavailable.                   *)
(***************************************************************************)
InitRate ==
    /\ now = 0
    /\ CooldownIdle
    /\ cooldown = 1000
    /\ RateIdle
    /\ MsgIdle
    /\ CacheIdle
    /\ CacheProcIdle
    /\ SaveIdle
    /\ LogIdle
    /\ ExtIdle

IgnoredOnlyBotDm(bot, hasGuild) == bot /\ ~hasGuild

\* if (message.author.bot || !message.guild) return;
IgnoredMessage(bot, hasGuild) == bot \/ ~hasGuild

\* client.on('messageCreate'): up to the first await inside checkRateLimit
MessageCreate(p, u, g, bot, hasGuild) ==
    /\ cpc[p] = "idle"
    /\ \A q \in Callers : q < p => cpc[q] # "idle"    \* callers are numbered by arrival
    /\ IF IgnoredMessage(bot, hasGuild)
          THEN /\ cpc' = [cpc EXCEPT ![p] = "done"]
               /\ cout' = [cout EXCEPT ![p] = "ignored"]
               /\ UNCHANGED <<cuser, cguild>>
          ELSE /\ cpc' = [cpc EXCEPT ![p] = "incrUser"]
               /\ cuser' = [cuser EXCEPT ![p] = u]
               /\ cguild' = [cguild EXCEPT ![p] = g]
               /\ cout' = cout
    /\ UNCHANGED <<now, rlVars, cuc, cgc, cepU, cepG, cret, cfail, cwhy, rateFrame>>

\* the handler is over: its locals are gone
Forget(p) ==
    /\ cuser' = [cuser EXCEPT ![p] = "u1"]
    /\ cguild' = [cguild EXCEPT ![p] = "g1"]
    /\ cuc' = [cuc EXCEPT ![p] = 0]
    /\ cgc' = [cgc EXCEPT ![p] = 0]
    /\ cepU' = [cepU EXCEPT ![p] = 0]
    /\ cepG' = [cepG EXCEPT ![p] = 0]

\* the rest of checkRateLimit after its last await, and the handler's use of it:
\* if (!allowed) return message.reply("Rate limit exceeded"); await handleMessage(message)
Returned(p, uc, gc, eu, eg) ==
    /\ cpc' = [cpc EXCEPT ![p] = "done"]
    /\ cret' = [cret EXCEPT ![p] = IF RateLimitAllowed(uc, gc) THEN "true" ELSE "false"]
    /\ cout' = [cout EXCEPT ![p] = IF RateLimitAllowed(uc, gc) THEN "handled" ELSE "limited"]
    /\ adm' = IF RateLimitAllowed(uc, gc)
                 THEN [adm EXCEPT ![UserKey(cuser[p])][eu] = @ + 1,
                                  ![GuildKey(cguild[p])][eg] = @ + 1]
                 ELSE adm
    /\ cwhy' = IF RateLimitAllowed(uc, gc)
                  THEN cwhy
                  ELSE [cwhy EXCEPT ![p] = [own |-> seen[cuser[p]][cguild[p]], guild |-> gc]]
    /\ Forget(p)

\* const userCount = await redis.incr(userKey)
IncrUser(p) ==
    /\ cpc[p] = "incrUser"
    /\ RedisIncr(UserKey(cuser[p]))
    /\ adm' = adm
    /\ seen' = [seen EXCEPT ![cuser[p]][cguild[p]] = IF @ > USER_MAX THEN @ ELSE @ + 1]
    /\ cuc' = [cuc EXCEPT ![p] = RedisIncrValue(UserKey(cuser[p]))]
    /\ cepU' = [cepU EXCEPT ![p] = epoch'[UserKey(cuser[p])]]
    /\ cpc' = [cpc EXCEPT ![p] = "incrGuild"]
    /\ UNCHANGED <<now, cuser, cguild, cgc, cepG, cret, cout, cfail, cwhy, rateFrame>>

\* (mutant) the guild counter is left alone when the user ceiling is already passed
IncrGuildUnlessUserOver(p) ==
    /\ cpc[p] = "incrGuild"
    /\ IF cuc[p] > USER_MAX
          THEN /\ UNCHANGED <<cnt, ttl, epoch>>
               /\ Returned(p, cuc[p], 1, cepU[p], 1)
          ELSE /\ RedisIncr(GuildKey(cguild[p]))
               /\ LET gc == RedisIncrValue(GuildKey(cguild[p]))
                      eg == epoch'[GuildKey(cguild[p])]
                  IN  IF cuc[p] = 1 \/ gc = 1
                         THEN /\ cpc' = [cpc EXCEPT ![p] = IF cuc[p] = 1 THEN "pexpireUser"
                                                                          ELSE "pexpireGuild"]
                              /\ cgc' = [cgc EXCEPT ![p] = gc]
                              /\ cepG' = [cepG EXCEPT ![p] = eg]
                              /\ UNCHANGED <<adm, cuser, cguild, cuc, cepU, cret, cout, cwhy>>
                         ELSE Returned(p, cuc[p], gc, cepU[p], eg)
    /\ UNCHANGED <<now, seen, cfail, rateFrame>>

\* const guildCount = await redis.incr(guildKey)
IncrGuild(p) ==
    /\ cpc[p] = "incrGuild"
    /\ RedisIncr(GuildKey(cguild[p]))
    /\ LET gc == RedisIncrValue(GuildKey(cguild[p]))
           eg == epoch'[GuildKey(cguild[p])]
       IN  IF cuc[p] = 1 \/ gc = 1
              THEN /\ cpc' = [cpc EXCEPT ![p] = IF cuc[p] = 1 THEN "pexpireUser"
                                                               ELSE "pexpireGuild"]
                   /\ cgc' = [cgc EXCEPT ![p] = gc]
                   /\ cepG' = [cepG EXCEPT ![p] = eg]
                   /\ UNCHANGED <<adm, cuser, cguild, cuc, cepU, cret, cout, cwhy>>
              ELSE Returned(p, cuc[p], gc, cepU[p], eg)
    /\ UNCHANGED <<now, seen, cfail, rateFrame>>

\* if (userCount === 1) await redis.pexpire(userKey, RATE_LIMIT.USER.WINDOW)
PexpireUser(p) ==
    /\ cpc[p] = "pexpireUser"
    /\ RedisPexpire(UserKey(cuser[p]), USER_WINDOW)
    /\ IF cgc[p] = 1
          THEN /\ cpc' = [cpc EXCEPT ![p] = "pexpireGuild"]
               /\ UNCHANGED <<adm, cuser, cguild, cuc, cgc, cepU, cepG, cret, cout, cwhy>>
          ELSE Returned(p, cuc[p], cgc[p], cepU[p], cepG[p])
    /\ UNCHANGED <<now, seen, cfail, rateFrame>>

\* if (guildCount === 1) await redis.pexpire(guildKey, RATE_LIMIT.GUILD.WINDOW)
PexpireGuild(p) ==
    /\ cpc[p] = "pexpireGuild"
    /\ RedisPexpire(GuildKey(cguild[p]), GUILD_WINDOW)
    /\ Returned(p, cuc[p], cgc[p], cepU[p], cepG[p])
    /\ UNCHANGED <<now, seen, cfail, rateFrame>>

\* the awaited redis call rejects: nothing in checkRateLimit or in the handler
\* catches it, so the handler's promise rejects
RedisCallRejects(p) ==
    /\ cpc[p] \in {"incrUser", "incrGuild", "pexpireUser", "pexpireGuild"}
    /\ cpc' = [cpc EXCEPT ![p] = "done"]
    /\ cret' = [cret EXCEPT ![p] = "threw"]
    /\ cout' = [cout EXCEPT ![p] = "rejected"]
    /\ cfail' = [cfail EXCEPT ![p] = TRUE]
    /\ Forget(p)
    /\ UNCHANGED <<now, rlVars, cwhy, rateFrame>>

\* one clock tick passes: every TTL runs down, and a key whose TTL runs out is deleted
Tick ==
    /\ \E k \in CntKeys : ttl[k] > 0
    /\ cnt' = [k \in CntKeys |-> IF ttl[k] = 1 THEN 0 ELSE cnt[k]]
    /\ ttl' = [k \in CntKeys |-> IF ttl[k] > 0 THEN ttl[k] - 1 ELSE 0]
    /\ UNCHANGED <<now, epoch, adm, seen, callerVars, rateFrame>>

\* the guilds whose traffic SpecRate draws
RateGuilds == {"g1"}

NextRate ==
    \/ \E p \in Callers, u \in UserIds, g \in RateGuilds, bot \in BOOLEAN, hasGuild \in BOOLEAN :
            MessageCreate(p, u, g, bot, hasGuild)
    \/ \E p \in Callers : IncrUser(p)
    \/ \E p \in Callers : IncrGuild(p)
    \/ \E p \in Callers : PexpireUser(p)
    \/ \E p \in Callers : PexpireGuild(p)
    \/ \E p \in Callers : RedisCallRejects(p)
    \/ Tick

SpecRate == InitRate /\ [][NextRate]_vars

\* every call that has started goes on, and time passes
SpecRateFair == SpecRate /\ WF_vars(NextRate)

\* the messages of one user in several guilds
NextRateGuilds ==
    \/ \E p \in Callers, g \in GuildIds, bot \in BOOLEAN, hasGuild \in BOOLEAN :
            MessageCreate(p, "u1", g, bot, hasGuild)
    \/ \E p \in Callers : IncrUser(p)
    \/ \E p \in Callers : IncrGuild(p)
    \/ \E p \in Callers : PexpireUser(p)
    \/ \E p \in Callers : PexpireGuild(p)
    \/ \E p \in Callers : RedisCallRejects(p)
    \/ Tick

SpecRateGuilds == InitRate /\ [][NextRateGuilds]_vars

(***************************************************************************)
(* The messageCreate handlers that look up and run the stored commands:    *)
(* part_000:118 ("part000"), part_001:78 ("part001"), bot.js:116 ("bot")   *)
(* and index.js:300 ("index").  One step runs the handler from one await   *)
(* to the next.  vm.run is synchronous: JavaScript code runs, and a        *)
(* synchronous loop is ended by the VM timeout, inside the step that       *)
(* starts it; exec starts a subprocess whose callback is a later step.     *)
(***************************************************************************)
InitMsg ==
    /\ now = 0
    /\ CooldownIdle
    /\ cooldown = 1000
    /\ RateIdle
    /\ CacheIdle
    /\ CacheProcIdle
    /\ SaveIdle
    /\ LogIdle
    /\ ExtIdle
    /\ hv \in Handlers
    /\ msg \in Messages
    /\ cmds \in IF hv = "gate" THEN {<<>>} ELSE {WithIds(l) : l \in CommandLists}
    /\ guildPrefix = <<>>
    /\ hpc = "idle"
    /\ hidx = 0
    /\ hlist = <<>>
    /\ hprefix = <<>>
    /\ hfail = FALSE
    /\ units = {}
    /\ execs = <<>>
    /\ replies = <<>>
    /\ storeReads = 0
    /\ logs = <<>>
    /\ hlog = NoLog

\* the for loop goes on with the i-th command of list, or is over
Continue(i, list) ==
    /\ hidx' = IF i > Len(list) THEN 0 ELSE i
    /\ hpc' = IF i > Len(list) THEN "done" ELSE "loop"

Reply(id, kind) == replies' = Append(replies, [id |-> id, kind |-> kind])

Execute(id) == execs' = Append(execs, id)

\* client.on('messageCreate'): from the top of the handler to its first await
MessageArrives ==
    /\ hv # "gate"
    /\ hpc = "idle"
    /\ IF IgnoredMessage(msg.bot, msg.hasGuild)
          THEN /\ hpc' = "done"
               /\ UNCHANGED <<hlist, storeReads>>
       ELSE IF hv = "index" /\ ~StartsWith(msg.content, <<"!">>)
          THEN /\ hpc' = "done"
               /\ UNCHANGED <<hlist, storeReads>>
       ELSE IF hv = "index" /\ CacheHit(guildCache, now)
          THEN /\ hpc' = "find"
               /\ hlist' = guildCache.data
               /\ UNCHANGED storeReads
       ELSE /\ hpc' = "hgetall"
            /\ storeReads' = storeReads + 1
            /\ UNCHANGED hlist
    /\ UNCHANGED <<hv, msg, cmds, guildPrefix, hidx, hfail, units, execs, replies, logs,
                   hlog, hprefix, cacheVars, msgFrame>>

\* await redis.hgetall(`commands:${guildId}`) gives the hash
HgetallReplies ==
    /\ hpc = "hgetall"
    /\ IF hv = "index"
          THEN /\ hlist' = ParsedCommands(cmds)
               /\ guildCache' = [timestamp |-> now, data |-> ParsedCommands(cmds)]
               /\ hpc' = "find"
               /\ UNCHANGED <<hidx, storeReads>>
       ELSE IF hv = "part000"
          THEN /\ hlist' = cmds
               /\ hpc' = "getPrefix"
               /\ storeReads' = storeReads + 1
               /\ UNCHANGED <<hidx, guildCache>>
       ELSE /\ hlist' = cmds
            /\ Continue(1, cmds)
            /\ UNCHANGED <<storeReads, guildCache>>
    /\ UNCHANGED <<hv, msg, cmds, guildPrefix, hfail, units, execs, replies, logs, hlog,
                   hprefix, reqQ, repQ, lpc, lret, lfail, lmust, lmustNot, wpc, created,
                   delStarted, delDone, msgFrame>>

\* await redis.hgetall(...) rejects: loadGuildCommands (index.js) returns [], the
\* try of bot.js catches it, nothing catches it in part_000 and part_001
HgetallRejects ==
    /\ hpc = "hgetall"
    /\ hfail' = TRUE
    /\ hpc' = IF hv = "index" THEN "find"
              ELSE IF hv = "bot" THEN "done"
              ELSE "rejected"
    /\ hlist' = <<>>
    /\ UNCHANGED <<hv, msg, cmds, guildPrefix, hidx, units, execs, replies, storeReads,
                   logs, hlog, hprefix, cacheVars, msgFrame>>

\* part_000: await redis.get(`prefix:${guildId}`) || "!"
GetPrefixReplies ==
    /\ hpc = "getPrefix"
    /\ hprefix' = GlobalPrefix(guildPrefix)
    /\ Continue(1, hlist)
    /\ UNCHANGED <<hv, msg, cmds, guildPrefix, hlist, hfail, units, execs, replies,
                   storeReads, logs, hlog, cacheVars, msgFrame>>

\* part_000: await redis.get(...) rejects, and nothing catches it
GetPrefixRejects ==
    /\ hpc = "getPrefix"
    /\ hpc' = "rejected"
    /\ UNCHANGED <<hv, msg, cmds, guildPrefix, hidx, hlist, hfail, units, execs, replies,
                   storeReads, logs, hlog, hprefix, cacheVars, msgFrame>>

\* part_000: one pass of the for loop
Part000Iteration ==
    /\ hv = "part000"
    /\ hpc = "loop"
    /\ LET cmd == hlist[hidx]
       IN  IF cmd.raw = "garbage"
              THEN /\ hpc' = "rejected"            \* JSON.parse throws outside any try
                   /\ UNCHANGED <<hidx, units, execs, replies>>
           ELSE IF ~Part000Match(cmd, msg.content, hprefix) \/ Restricted(cmd, msg)
              THEN /\ Continue(hidx + 1, hlist)
                   /\ UNCHANGED <<units, execs, replies>>
           ELSE IF cmd.lang = "JavaScript"
              THEN /\ Execute(cmd.id)              \* vm.run(cmd.code), timeout 1000
                   /\ IF cmd.code = "ok" THEN Reply(cmd.id, "output") ELSE replies' = replies
                   /\ Continue(hidx + 1, hlist)
                   /\ UNCHANGED units
           ELSE IF cmd.lang = "Python"
              THEN /\ Execute(cmd.id)              \* exec(...): not awaited
                   /\ units' = units \cup {[id |-> cmd.id, lang |-> cmd.lang, code |-> cmd.code]}
                   /\ Continue(hidx + 1, hlist)
                   /\ UNCHANGED replies
           ELSE /\ Continue(hidx + 1, hlist)
                /\ UNCHANGED <<units, execs, replies>>
    /\ UNCHANGED <<hv, msg, cmds, guildPrefix, hlist, hfail, storeReads, logs, hlog,
                   hprefix, cacheVars, msgFrame>>

\* part_001: one pass of the for loop, up to its await
Part001Iteration ==
    /\ hv = "part001"
    /\ hpc = "loop"
    /\ LET cmd == hlist[hidx]
       IN  IF cmd.raw = "garbage" \/ Part001TriggerThrows(cmd)
              THEN /\ hpc' = "rejected"            \* thrown outside the try
                   /\ UNCHANGED <<hidx, units, execs, replies>>
           ELSE IF ~Part001Triggered(cmd, msg.content) \/ Restricted(cmd, msg)
              THEN /\ Continue(hidx + 1, hlist)
                   /\ UNCHANGED <<units, execs, replies>>
           ELSE IF cmd.lang = "JavaScript"
              THEN /\ Execute(cmd.id)              \* await vm.run(cmd.code), timeout 2000
                   /\ IF cmd.code = "stall"
                         THEN /\ hpc' = "await"
                              /\ UNCHANGED <<hidx, replies>>
                         ELSE /\ Reply(cmd.id, IF cmd.code = "ok" THEN "output" ELSE "runtime")
                              /\ Continue(hidx + 1, hlist)
                   /\ UNCHANGED units
           ELSE IF cmd.lang \in {"Python", "Golang"}
              THEN /\ Execute(cmd.id)              \* await runPython / runGo
                   /\ units' = units \cup {[id |-> cmd.id, lang |-> cmd.lang, code |-> cmd.code]}
                   /\ hpc' = "await"
                   /\ UNCHANGED <<hidx, replies>>
           ELSE /\ Continue(hidx + 1, hlist)
                /\ UNCHANGED <<units, execs, replies>>
    /\ UNCHANGED <<hv, msg, cmds, guildPrefix, hlist, hfail, storeReads, logs, hlog,
                   hprefix, cacheVars, msgFrame>>

\* bot.js: one pass of the for loop; executeJS turns what the code throws, the VM
\* timeout included, into its result
BotIteration ==
    /\ hv = "bot"
    /\ hpc = "loop"
    /\ LET cmd == hlist[hidx]
       IN  IF cmd.raw = "garbage"
              THEN /\ hpc' = "done"                \* caught by the try around the loop
                   /\ UNCHANGED <<hidx, execs, replies>>
           ELSE IF ~BotTriggered(cmd, msg.content)
              THEN /\ Continue(hidx + 1, hlist)
                   /\ UNCHANGED <<execs, replies>>
           ELSE /\ Execute(cmd.id)                 \* await executeJS(cmd.code), timeout 3000
                /\ IF cmd.code = "stall"
                      THEN /\ hpc' = "await"
                           /\ UNCHANGED <<hidx, replies>>
                      ELSE /\ Reply(cmd.id, IF cmd.code = "ok" THEN "output" ELSE "error")
                           /\ Continue(hidx + 1, hlist)
    /\ UNCHANGED <<hv, msg, cmds, guildPrefix, hlist, hfail, units, storeReads, logs, hlog,
                   hprefix, cacheVars, msgFrame>>

\* index.js: commands.find(...) and sandbox.run(command.code).  The sandbox is a
\* NodeVM, which has no timeout: a synchronous loop keeps running
IndexDispatch ==
    /\ hv = "index"
    /\ hpc = "find"
    /\ LET i == IndexFind(hlist, IndexCommandName(msg.content))
       IN  IF i = 0
              THEN /\ hpc' = "done"
                   /\ UNCHANGED <<execs, replies, hlog>>
              ELSE /\ Execute(hlist[i].id)
                   /\ IF hlist[i].code = "ok" THEN Reply(hlist[i].id, "output")
                                               ELSE replies' = replies
                   /\ hpc' = IF hlist[i].code = "loop" THEN "running"
                             ELSE IF hlist[i].code = "stall" THEN "await"
                             ELSE "lpush"
                   /\ hlog' = IF hlist[i].code \in {"ok", "throw"}
                                 THEN [id |-> hlist[i].id, success |-> hlist[i].code = "ok",
                                       second |-> FALSE]
                                 ELSE hlog
    /\ UNCHANGED <<hv, msg, cmds, guildPrefix, hidx, hlist, hfail, units, storeReads, logs,
                   hprefix, cacheVars, msgFrame>>

LOG_KEEP == 1            \* 9999 in index.js:434, scaled

Min(a, b) == IF a <= b THEN a ELSE b

\* LTRIM key start stop
RedisLtrim(list, start, stop) == SubSeq(list, start + 1, Min(stop + 1, Len(list)))

\* logCommandExecution: await redis.lpush(`logs:${guildId}`, entry)
LogLpush ==
    /\ hpc = "lpush"
    /\ logs' = <<[id |-> hlog.id, success |-> hlog.success]>> \o logs
    /\ hpc' = "ltrim"
    /\ UNCHANGED <<hv, msg, cmds, guildPrefix, hidx, hlist, hfail, units, execs, replies,
                   storeReads, hlog, hprefix, cacheVars, msgFrame>>

\* logCommandExecution: await redis.ltrim(`logs:${guildId}`, 0, 9999)
LogLtrim ==
    /\ hpc = "ltrim"
    /\ logs' = RedisLtrim(logs, 0, LOG_KEEP)
    /\ hpc' = "done"
    /\ UNCHANGED <<hv, msg, cmds, guildPrefix, hidx, hlist, hfail, units, execs, replies,
                   storeReads, hlog, hprefix, cacheVars, msgFrame>>

\* a redis call of logCommandExecution rejects: inside the try the catch calls
\* logCommandExecution again with success = false; inside the catch nothing catches it
LogRejects ==
    /\ hpc \in {"lpush", "ltrim"}
    /\ IF hlog.success /\ ~hlog.second
          THEN /\ hlog' = [hlog EXCEPT !.success = FALSE, !.second = TRUE]
               /\ hpc' = "lpush"
          ELSE /\ hpc' = "rejected"
               /\ UNCHANGED hlog
    /\ UNCHANGED <<hv, msg, cmds, guildPrefix, hidx, hlist, hfail, units, execs, replies,
                   storeReads, logs, hprefix, cacheVars, msgFrame>>

\* the callback of exec: the subprocess has ended.  Code that never stops never
\* gets here: exec is called without a timeout
SubprocessExits(u) ==
    /\ u \in units
    /\ u.code # "loop"
    /\ units' = units \ {u}
    /\ IF hv = "part000"
          THEN /\ IF u.code = "ok" THEN Reply(u.id, "output") ELSE replies' = replies
               /\ UNCHANGED <<hpc, hidx>>
          ELSE /\ Reply(u.id, IF u.code = "ok" THEN "output" ELSE "error")
               /\ Continue(hidx + 1, hlist)
    /\ UNCHANGED <<hv, msg, cmds, guildPrefix, hlist, hfail, execs, storeReads, logs, hlog,
                   hprefix, cacheVars, msgFrame>>

\* the handler of part_000:20 receives the message
GateMessageCreate == hv = "gate" /\ MessageCreate(1, msg.user, msg.guild, msg.bot, msg.hasGuild)

NextMsg ==
    \/ MessageArrives
    \/ HgetallReplies
    \/ HgetallRejects
    \/ GetPrefixReplies
    \/ GetPrefixRejects
    \/ Part000Iteration
    \/ Part001Iteration
    \/ BotIteration
    \/ IndexDispatch
    \/ LogLpush
    \/ LogLtrim
    \/ LogRejects
    \/ \E u \in units : SubprocessExits(u)
    \/ GateMessageCreate
    \/ hv = "gate" /\ IncrUser(1)
    \/ hv = "gate" /\ IncrGuild(1)
    \/ hv = "gate" /\ PexpireUser(1)
    \/ hv = "gate" /\ PexpireGuild(1)
    \/ hv = "gate" /\ RedisCallRejects(1)

SpecMsg == InitMsg /\ [][NextMsg]_vars

\* every step that can be taken is taken in the end
SpecMsgFair == SpecMsg /\ WF_vars(NextMsg)

(***************************************************************************)
(* The guild command cache of index.js: loadGuildCommands, the dashboard   *)
(* routes that write a command (POST, DELETE) and the cleanup interval.    *)
(* All of them talk to Redis through the one client of index.js:136, one   *)
(* connection: commands are sent in the order they are issued, the server  *)
(* runs them in that order and the replies resolve the awaiting callers in *)
(* that order.  A step of a caller runs from one await to the next.        *)
(***************************************************************************)
\* POST /api/commands/:guildId: commandData, stored under a fresh uuid
DashboardCommand(id) ==
    [id |-> id] @@ StoredCommand("json", [type |-> "", trigger |-> <<>>, name |-> <<"p">>],
                                 <<"JavaScript", "ok">>)

\* HSET key field value: a new field goes to the end of the hash
RedisHset(hash, id, value) ==
    IF \E i \in DOMAIN hash : hash[i].id = id
       THEN [i \in DOMAIN hash |-> IF hash[i].id = id THEN value ELSE hash[i]]
       ELSE Append(hash, value)

\* HDEL key field
RedisHdel(hash, id) == SelectSeq(hash, LAMBDA c : c.id # id)

CommandIds(list) == {list[i].id : i \in DOMAIN list}

\* guildCache.delete(`commands:${guildId}`) after a write
CacheKeptAfterWrite(entry) == entry

CacheAfterWrite(entry) == NoEntry

InitCache ==
    /\ now = 0
    /\ CooldownIdle
    /\ cooldown = 1000
    /\ RateIdle
    /\ MsgIdle
    /\ CacheIdle
    /\ CacheProcIdle
    /\ SaveIdle
    /\ LogIdle
    /\ ExtIdle

cacheFrame ==
    <<cdVars, rlVars, callerVars, hv, msg, guildPrefix, hpc, hidx, hlist, hfail, units,
      execs, replies, storeReads, logs, hlog, hprefix, saveVars, logVars, extVars>>

\* loadGuildCommands, up to its await: a fresh cache entry is returned at once
LoadStarts(l) ==
    /\ lpc[l] = "idle"
    /\ \A k \in Loaders : k < l => lpc[k] # "idle"      \* loaders are numbered by arrival
    /\ lmust' = [lmust EXCEPT ![l] = created \ delStarted]
    /\ lmustNot' = [lmustNot EXCEPT ![l] = delDone]
    /\ IF CacheHit(guildCache, now)
          THEN /\ lpc' = [lpc EXCEPT ![l] = "done"]
               /\ lret' = [lret EXCEPT ![l] = guildCache.data]
               /\ UNCHANGED reqQ
          ELSE /\ lpc' = [lpc EXCEPT ![l] = "await"]
               /\ reqQ' = Append(reqQ, [who |-> <<"L", l>>, op |-> "hgetall", id |-> 0])
               /\ UNCHANGED lret
    /\ UNCHANGED <<now, cmds, guildCache, repQ, lfail, wpc, created, delStarted, delDone,
                   cacheFrame>>

\* POST /api/commands/:guildId, up to await redis.hset(...)
PostStarts(w) ==
    /\ wpc[w] = "idle"
    /\ \A k \in Writers : k < w => wpc[k] # "idle"      \* writers are numbered by arrival
    /\ wpc' = [wpc EXCEPT ![w] = "await"]
    /\ reqQ' = Append(reqQ, [who |-> <<"W", w>>, op |-> "hset", id |-> w])
    /\ UNCHANGED <<now, cmds, guildCache, repQ, lpc, lret, lfail, lmust, lmustNot, created,
                   delStarted, delDone,
                   cacheFrame>>

\* the command ids a dashboard user can have seen: those a POST answered with
\* and those a load returned
KnownIds == created \cup UNION {CommandIds(lret[l]) : l \in Loaders}

\* DELETE /api/commands/:guildId/:commandId, up to await redis.hdel(...)
DeleteStarts(w, id) ==
    /\ wpc[w] = "idle"
    /\ id \in KnownIds
    /\ \A k \in Writers : k < w => wpc[k] # "idle"
    /\ wpc' = [wpc EXCEPT ![w] = "await"]
    /\ reqQ' = Append(reqQ, [who |-> <<"W", w>>, op |-> "hdel", id |-> id])
    /\ delStarted' = delStarted \cup {id}
    \* a load in flight may or may not see a command whose delete has begun
    /\ lmust' = [l \in Loaders |-> IF lpc[l] = "await" THEN lmust[l] \ {id} ELSE lmust[l]]
    /\ UNCHANGED <<now, cmds, guildCache, repQ, lpc, lret, lfail, lmustNot, created, delDone,
                   cacheFrame>>

\* the Redis server runs the oldest command it was sent
RedisServes ==
    /\ reqQ # <<>>
    /\ LET r == Head(reqQ)
       IN  /\ cmds' = IF r.op = "hset" THEN RedisHset(cmds, r.id, DashboardCommand(r.id))
                      ELSE IF r.op = "hdel" THEN RedisHdel(cmds, r.id)
                      ELSE cmds
           /\ repQ' = Append(repQ, [who |-> r.who, op |-> r.op, id |-> r.id, ok |-> TRUE,
                                    data |-> IF r.op = "hgetall" THEN cmds ELSE <<>>])
    /\ reqQ' = Tail(reqQ)
    /\ UNCHANGED <<now, guildCache, lpc, lret, lfail, lmust, lmustNot, wpc, created,
                   delStarted, delDone,
                   cacheFrame>>

\* the oldest command is not run: the client gives up on it (maxRetriesPerRequest)
RedisFails ==
    /\ reqQ # <<>>
    /\ LET r == Head(reqQ)
       IN  repQ' = Append(repQ, [who |-> r.who, op |-> r.op, id |-> r.id, ok |-> FALSE,
                                 data |-> <<>>])
    /\ reqQ' = Tail(reqQ)
    /\ UNCHANGED <<now, cmds, guildCache, lpc, lret, lfail, lmust, lmustNot, wpc, created,
                   delStarted, delDone,
                   cacheFrame>>

\* the oldest reply resolves (or rejects) the call that awaits it, and the
\* caller runs to its end
ClientReceives ==
    /\ repQ # <<>>
    /\ LET r == Head(repQ)
           p == r.who[2]
       IN  IF r.who[1] = "L"
              THEN /\ lpc' = [lpc EXCEPT ![p] = "done"]
                   /\ IF r.ok
                         THEN /\ guildCache' = [timestamp |-> now,
                                                data |-> ParsedCommands(r.data)]
                              /\ lret' = [lret EXCEPT ![p] = ParsedCommands(r.data)]
                              /\ UNCHANGED lfail
                         ELSE /\ lret' = [lret EXCEPT ![p] = <<>>]     \* catch: return []
                              /\ lfail' = [lfail EXCEPT ![p] = TRUE]
                              /\ UNCHANGED guildCache
                   /\ UNCHANGED <<wpc, created, delDone>>
              ELSE /\ wpc' = [wpc EXCEPT ![p] = "done"]
                   /\ IF r.ok
                         THEN /\ guildCache' = CacheAfterWrite(guildCache)
                              /\ created' = IF r.op = "hset" THEN created \cup {r.id}
                                                             ELSE created
                              /\ delDone' = IF r.op = "hdel" THEN delDone \cup {r.id}
                                                             ELSE delDone
                         ELSE UNCHANGED <<guildCache, created, delDone>>   \* catch: 500
                   /\ UNCHANGED <<lpc, lret, lfail>>
    /\ repQ' = Tail(repQ)
    /\ UNCHANGED <<now, cmds, reqQ, lmust, lmustNot, delStarted,
                   cacheFrame>>

\* time passes
CacheClockAdvances ==
    /\ now + CacheClockStep <= MaxCacheNow
    /\ now' = now + CacheClockStep
    /\ UNCHANGED <<cmds, cacheVars,
                   cacheFrame>>

\* setInterval(..., 60000): if (now - timestamp > 5 * 60 * 1000) guildCache.delete(guildKey)
CleanupInterval ==
    /\ guildCache # NoEntry
    /\ now - guildCache.timestamp > CACHE_TTL
    /\ guildCache' = NoEntry
    /\ UNCHANGED <<now, cmds, reqQ, repQ, lpc, lret, lfail, lmust, lmustNot, wpc, created,
                   delStarted, delDone,
                   cacheFrame>>

NextCache ==
    \/ \E l \in Loaders : LoadStarts(l)
    \/ \E w \in Writers : PostStarts(w)
    \/ \E w \in Writers, id \in Writers : DeleteStarts(w, id)
    \/ RedisServes
    \/ RedisFails
    \/ ClientReceives
    \/ CacheClockAdvances
    \/ CleanupInterval

SpecCache == InitCache /\ [][NextCache]_vars

(***************************************************************************)
(* The routes that save a command: app.post('/api/save-command') of        *)
(* part_000, part_001 and bot.js, app.post('/api/commands/:guildId') of    *)
(* index.js, and addCommand of auth.js.  Every request of a run goes to    *)
(* the program sv.  A step runs a request from one await to the next.      *)
(***************************************************************************)
SavePrograms == {"part000", "part001", "bot", "index", "auth"}

CodeLengths == {MAX_COMMAND_LENGTH, MAX_COMMAND_LENGTH + 1}

\* validateCode / addCommand: code.length > MAX_COMMAND_LENGTH
CodeTooLong(len) == len > MAX_COMMAND_LENGTH

\* part_000: if (!command.isEdit && count >= 100) return res.status(403)
SaveLimitReached(count, isEdit) == ~isEdit /\ count >= MAX_COMMANDS

\* auth.js addCommand: if (count >= MAX_COMMANDS_PER_SERVER) throw
AddLimitReached(count) == count >= MAX_COMMANDS

\* the hash field the request writes: index.js makes a fresh uuid for every
\* request, the other routes take command.id
SavedId(program, s, req) == IF program = "index" THEN NKeys + s ELSE req.key

\* JSON.stringify(command) / commandData
SavedRecord(program, s, req) ==
    [id |-> SavedId(program, s, req), key |-> req.key, codeLen |-> req.codeLen,
     isEdit |-> req.isEdit]

InitSave ==
    /\ now = 0
    /\ CooldownIdle
    /\ cooldown = 1000
    /\ RateIdle
    /\ MsgIdle
    /\ CacheIdle
    /\ CacheProcIdle
    /\ LogIdle
    /\ ExtIdle
    /\ sv \in SavePrograms
    /\ spc = [s \in Savers |-> "idle"]
    /\ sreq = [s \in Savers |-> NoRequest]
    /\ sres = [s \in Savers |-> "none"]

saveFrame == <<now, cdVars, rlVars, callerVars, cacheVars, logVars, extVars, hv, msg, guildPrefix, hpc, hidx,
               hlist, hfail, units, execs, replies, storeReads, logs, hlog, hprefix>>

\* the request arrives: up to the first await of the route
SaveStarts(s, key, len, edit) ==
    /\ spc[s] = "idle"
    /\ \A k \in Savers : k < s => spc[k] # "idle"       \* requests are numbered by arrival
    /\ sreq' = [sreq EXCEPT ![s] = [key |-> key, codeLen |-> len, isEdit |-> edit]]
    /\ spc' = [spc EXCEPT ![s] = IF sv \in {"part000", "auth"} THEN "hlen" ELSE "hset"]
    /\ UNCHANGED <<sv, sres, cmds, saveFrame>>

\* await redis.hlen(`commands:${guildId}`) and the checks that follow it
HlenReplies(s) ==
    /\ spc[s] = "hlen"
    /\ LET count == Len(cmds)
           refused == IF sv = "part000"
                         THEN SaveLimitReached(count, sreq[s].isEdit)
                         ELSE AddLimitReached(count) \/ CodeTooLong(sreq[s].codeLen)
       IN  IF refused
              THEN /\ spc' = [spc EXCEPT ![s] = "done"]
                   /\ sres' = [sres EXCEPT ![s] = "refused"]
              ELSE /\ spc' = [spc EXCEPT ![s] = "hset"]
                   /\ UNCHANGED sres
    /\ UNCHANGED <<sv, sreq, cmds, saveFrame>>

\* await redis.hset(`commands:${guildId}`, id, JSON.stringify(command)); 200
HsetReplies(s) ==
    /\ spc[s] = "hset"
    /\ cmds' = RedisHset(cmds, SavedId(sv, s, sreq[s]), SavedRecord(sv, s, sreq[s]))
    /\ spc' = [spc EXCEPT ![s] = "done"]
    /\ sres' = [sres EXCEPT ![s] = "saved"]
    /\ UNCHANGED <<sv, sreq, saveFrame>>

\* the awaited redis call rejects: nothing is written
SaveCallRejects(s) ==
    /\ spc[s] \in {"hlen", "hset"}
    /\ spc' = [spc EXCEPT ![s] = "done"]
    /\ sres' = [sres EXCEPT ![s] = "error"]
    /\ UNCHANGED <<sv, sreq, cmds, saveFrame>>

NextSave ==
    \/ \E s \in Savers, key \in 1..NKeys, len \in CodeLengths, edit \in BOOLEAN :
            SaveStarts(s, key, len, edit)
    \/ \E s \in Savers : HlenReplies(s)
    \/ \E s \in Savers : HsetReplies(s)
    \/ \E s \in Savers : SaveCallRejects(s)

SpecSave == InitSave /\ [][NextSave]_vars

(***************************************************************************)
(* index.js: concurrent calls of logCommandExecution for one guild.  Each  *)
(* call is two awaited redis calls, lpush and then ltrim, with no try      *)
(* around them: a rejection of either ends the call.  The entry's uuid is  *)
(* written as the number of the push, so that the list shows its order.    *)
(***************************************************************************)
InitLog ==
    /\ now = 0
    /\ CooldownIdle
    /\ cooldown = 1000
    /\ RateIdle
    /\ MsgIdle
    /\ CacheIdle
    /\ CacheProcIdle
    /\ SaveIdle
    /\ LogIdle
    /\ ExtIdle

logFrame == <<now, cdVars, rlVars, callerVars, cacheVars, saveVars, extVars, hv, msg, cmds, guildPrefix,
              hpc, hidx, hlist, hfail, units, execs, replies, storeReads, hlog, hprefix>>

\* logCommandExecution(guildId, ...) up to its first await
LogCallStarts(g) ==
    /\ gpc[g] = "idle"
    /\ gseq + Cardinality({h \in LogCalls : gpc[h] = "lpush"}) < MaxPushed
    /\ gpc' = [gpc EXCEPT ![g] = "lpush"]
    /\ UNCHANGED <<logs, gseq, gfail, logFrame>>

\* await redis.lpush(`logs:${guildId}`, JSON.stringify(logEntry))
LpushReplies(g) ==
    /\ gpc[g] = "lpush"
    /\ logs' = <<[id |-> gseq + 1, success |-> TRUE]>> \o logs
    /\ gseq' = gseq + 1
    /\ gpc' = [gpc EXCEPT ![g] = "ltrim"]
    /\ UNCHANGED <<gfail, logFrame>>

\* await redis.ltrim(`logs:${guildId}`, 0, 9999)
LtrimReplies(g) ==
    /\ gpc[g] = "ltrim"
    /\ logs' = RedisLtrim(logs, 0, LOG_KEEP)
    /\ gpc' = [gpc EXCEPT ![g] = "idle"]
    /\ UNCHANGED <<gseq, gfail, logFrame>>

\* the awaited lpush or ltrim rejects: the call ends there
LogCallRejects(g) ==
    /\ gpc[g] \in {"lpush", "ltrim"}
    /\ gpc' = [gpc EXCEPT ![g] = "idle"]
    /\ gfail' = TRUE
    /\ UNCHANGED <<logs, gseq, logFrame>>

NextLog ==
    \/ \E g \in LogCalls : LogCallStarts(g)
    \/ \E g \in LogCalls : LpushReplies(g)
    \/ \E g \in LogCalls : LtrimReplies(g)
    \/ \E g \in LogCalls : LogCallRejects(g)

SpecLog == InitLog /\ [][NextLog]_vars

(***************************************************************************)
(* Claims about the cooldown.                                              *)
(***************************************************************************)
SameKey(a, b) == auser[a] = auser[b] /\ apath[a] = apath[b]

Abs(x) == IF x < 0 THEN -x ELSE x

\* C1: of two admission attempts for one cooldown key decided within cooldownMs
\* of each other (or concurrently), at most one is admitted.
C1_AtMostOneAdmitted ==
    \A a, b \in Attempts :
        (a # b /\ SameKey(a, b) /\ ares[a] = "admit" /\ ares[b] = "admit")
            => Abs(atime[a] - atime[b]) >= cooldown

\* Firings of the key of attempt a that were recorded no later than a's decision
PriorFirings(a) ==
    {afire[b] : b \in {x \in Attempts : x # a /\ SameKey(x, a) /\ ares[x] = "admit"
                                          /\ afire[x] <= atime[a]}}

Max(S) == CHOOSE x \in S : \A y \in S : y <= x

WithinCooldown(a) ==
    PriorFirings(a) # {} /\ atime[a] - Max(PriorFirings(a)) < cooldown

\* C2: made one after the other, an attempt is denied exactly when fewer than
\* cooldownMs milliseconds have passed since the last admitted firing for its key.
C2_DeniedExactlyWithinCooldown ==
    \A a \in Attempts :
        apc[a] = "done" => (ares[a] = "deny" <=> WithinCooldown(a))

(***************************************************************************)
(* Claims about checkRateLimit.                                            *)
(***************************************************************************)
\* C3: within one window (one incarnation of a counter key) checkRateLimit returns
\* true for at most RATE_LIMIT.USER.MAX calls of one user and for at most
\* RATE_LIMIT.GUILD.MAX calls of one guild, in every interleaving of the callers.
C3_ThroughputCeiling ==
    /\ \A u \in UserIds, e \in 1..NCallers : adm[UserKey(u)][e] <= USER_MAX
    /\ \A g \in GuildIds, e \in 1..NCallers : adm[GuildKey(g)][e] <= GUILD_MAX

\* a window of a user is full and a later call of that window was refused
C3_Witness ==
    \E u \in UserIds, p \in Callers :
        /\ epoch[UserKey(u)] > 0
        /\ adm[UserKey(u)][epoch[UserKey(u)]] = USER_MAX
        /\ cret[p] = "false"

\* C10: a call of checkRateLimit during which the store failed still ends in a
\* boolean decision, the same one for every such call, never in an exception.
C10_FixedDecisionOnStoreFailure ==
    /\ \A p \in Callers :
          (cpc[p] = "done" /\ cfail[p]) => (cret[p] \in {"true", "false"}
                                             /\ cout[p] \in {"handled", "limited"})
    /\ \A p, q \in Callers :
          (cpc[p] = "done" /\ cfail[p] /\ cpc[q] = "done" /\ cfail[q]) => cret[p] = cret[q]

(***************************************************************************)
(* Claims about the messageCreate handlers and the sandbox runners.        *)
(***************************************************************************)
HandlerOver == hpc \in {"done", "rejected"}

\* the message passed the guard, and the command set was read
Handled == ~(msg.bot \/ ~msg.hasGuild) /\ ~hfail

\* the stored command can be parsed and its trigger can be evaluated
Healthy(h, cmd) ==
    /\ cmd.raw = "json"
    /\ h = "part001" => ~Part001TriggerThrows(cmd)

\* the handler's own trigger rule selects the command for the message
TriggeredBy(h, cmd, m) ==
    IF h = "part001" THEN Part001Triggered(cmd, m.content) /\ ~Restricted(cmd, m)
    ELSE IF h = "part000"
       THEN Part000Match(cmd, m.content, GlobalPrefix(guildPrefix)) /\ ~Restricted(cmd, m)
    ELSE IF h = "bot" THEN BotTriggered(cmd, m.content)
    ELSE StartsWith(m.content, <<"!">>) /\ cmd.name = IndexCommandName(m.content)

TimesExecuted(id) == Cardinality({j \in DOMAIN execs : execs[j] = id})

InSandbox == hpc \in {"await", "running"} \/ units # {}

\* C4: whatever the code of a command does, every started execution comes to an
\* end: the handler does not wait for it for ever and no subprocess stays alive.
C4_ExecutionEnds == InSandbox ~> ~InSandbox

\* C5: in part_001 and bot.js, once the command set is read the handler ends
\* without an escaping error, and every command that parses and matches has been
\* executed, whatever the other commands of the guild are.
C5_FailureIsolation ==
    (hv \in {"part001", "bot"} /\ Handled /\ HandlerOver)
        => /\ hpc = "done"
           /\ \A i \in DOMAIN cmds :
                  (Healthy(hv, cmds[i]) /\ TriggeredBy(hv, cmds[i], msg))
                      => TimesExecuted(cmds[i].id) >= 1

\* the stored commands all parse, compile and run to their end
AllSound == \A i \in DOMAIN cmds : Healthy(hv, cmds[i]) /\ cmds[i].code = "ok"

\* C6: in part_001 and index.js, when the handler has ended, every command whose
\* trigger matched the message was executed exactly once.
C6_EveryMatchOnce ==
    (hv \in {"part001", "index"} /\ Handled /\ AllSound /\ hpc = "done")
        => \A i \in DOMAIN cmds :
               TriggeredBy(hv, cmds[i], msg) => TimesExecuted(cmds[i].id) = 1

\* C7: a message of a bot, or one outside a guild, causes no store read, no
\* update of a rate-limit counter, no execution, no reply and no audit entry, in
\* every handler.
C7_IgnoredMessageNoEffect ==
    (msg.bot \/ ~msg.hasGuild)
        => /\ storeReads = 0
           /\ \A k \in CntKeys : cnt[k] = 0 /\ epoch[k] = 0
           /\ execs = <<>>
           /\ units = {}
           /\ replies = <<>>
           /\ logs = <<>>
           /\ hpc \in {"idle", "done"}
           /\ cpc[1] \in {"idle", "done"}
           /\ cout[1] \in {"none", "ignored"}

C7_Witness ==
    /\ msg.bot
    /\ msg.hasGuild
    /\ hv = "index"
    /\ hpc = "done"
    /\ \E i \in DOMAIN cmds : Healthy(hv, cmds[i]) /\ TriggeredBy(hv, cmds[i], msg)

\* C8: when the read of the guild's command set fails, the handler ends without
\* an escaping error and has run no command and sent no reply.
C8_StoreFailureZeroCommands ==
    (hfail /\ HandlerOver)
        => /\ hpc = "done"
           /\ execs = <<>>
           /\ replies = <<>>

(***************************************************************************)
(* Claims about the guild command cache.                                   *)
(***************************************************************************)
\* what call l returned holds every command created before it started (unless a
\* delete of it had begun by then or began meanwhile) and no command whose delete
\* had completed before it started
SeesCompletedWrites(l) ==
    /\ lmust[l] \subseteq CommandIds(lret[l])
    /\ lmustNot[l] \cap CommandIds(lret[l]) = {}

\* C9 (as stated): every loadGuildCommands that starts after a dashboard write
\* has completed returns the command set with that write, whatever the
\* interleaving of loaders, writers and store replies.
C9_EveryLoadSeesCompletedWrites ==
    \A l \in Loaders : lpc[l] = "done" => SeesCompletedWrites(l)

\* C9 (amended): every loadGuildCommands that starts after a dashboard write has
\* completed, and whose read of the store is not rejected, returns the command
\* set with that write; a call whose read is rejected returns no command.
C9_LoadSeesCompletedWrites ==
    \A l \in Loaders :
        lpc[l] = "done"
            => IF lfail[l] THEN lret[l] = <<>> ELSE SeesCompletedWrites(l)

\* a first call cached the command set without command 1 while its POST was in
\* progress; a later call, started after the POST completed, returned command 1
C9_Witness ==
    /\ lpc[1] = "done" /\ ~lfail[1] /\ 1 \notin CommandIds(lret[1])
    /\ lpc[2] = "done" /\ ~lfail[2] /\ 1 \in lmust[2] /\ 1 \in CommandIds(lret[2])
    /\ now = 0

(***************************************************************************)
(* Claims about trigger matching.                                          *)
(***************************************************************************)
\* every stored command parses and runs to its end, and some Regex command has a
\* trigger that does not compile
OnlyRegexBroken ==
    /\ \A i \in DOMAIN cmds : cmds[i].raw = "json" /\ cmds[i].code = "ok"
    /\ \E i \in DOMAIN cmds : Part001TriggerThrows(cmds[i])

\* C11: in part_001, when the trigger of a stored Regex command does not compile,
\* the handler still ends normally, that command is not run, and every other
\* command whose trigger matches the message is run.
C11_BadRegexSkipsOneCommand ==
    (hv = "part001" /\ Handled /\ OnlyRegexBroken /\ HandlerOver)
        => /\ hpc = "done"
           /\ \A i \in DOMAIN cmds :
                  IF Part001TriggerThrows(cmds[i])
                     THEN TimesExecuted(cmds[i].id) = 0
                     ELSE TriggeredBy(hv, cmds[i], msg) => TimesExecuted(cmds[i].id) = 1

(***************************************************************************)
(* Trigger matching: one message through the for loop of part_000,         *)
(* part_001 or bot.js, for commands of every trigger type, with short      *)
(* trigger texts, prefixes and restrictions, and a store that answers.     *)
(***************************************************************************)
TriggerTypes ==
    {"Command (prefix)", "Exact Match", "Starts with", "Contains", "Regex (Case Insensitive)"}

TriggerTexts == {<<>>, <<"p">>, <<"P">>}

PrefixTexts == {<<>>, <<"?">>}

MatchContents ==
    {<<>>, <<"p">>, <<"P">>, <<"!">>, <<"!", "p">>, <<"!", "P">>, <<"?", "p">>, <<"x">>,
     <<"p", "x">>, <<"x", "p">>}

MatchHandlers == {"part000", "part001", "bot"}

\* a stored JavaScript command that runs to its end
TriggerCommand(type, trigger, prefix, roles, channels) ==
    [raw |-> "json", type |-> type, trigger |-> trigger, name |-> trigger, prefix |-> prefix,
     lang |-> "JavaScript", code |-> "ok", roles |-> roles, channels |-> channels]

MatchPool ==
    {TriggerCommand(t, g, p, {}, {}) : t \in TriggerTypes, g \in TriggerTexts, p \in PrefixTexts}

RestrictPool ==
    {TriggerCommand("Starts with", <<"p">>, <<>>, r, c) :
        r \in {{}, {"r1"}, {"r2"}}, c \in {{}, {"ch1"}, {"ch2"}}}

Follower == TriggerCommand("Starts with", <<"p">>, <<>>, {}, {})

MatchLists ==
    {<<c>> : c \in MatchPool \cup RestrictPool} \cup {<<c, Follower>> : c \in RestrictPool}

InitMatch ==
    /\ now = 0
    /\ CooldownIdle
    /\ cooldown = 1000
    /\ RateIdle
    /\ CacheIdle
    /\ CacheProcIdle
    /\ SaveIdle
    /\ LogIdle
    /\ ExtIdle
    /\ hv \in MatchHandlers
    /\ msg \in [bot : {FALSE}, hasGuild : {TRUE}, content : MatchContents,
                roles : {{}, {"r1"}}, channel : {"ch1"}, user : {"u1"}, guild : {"g1"}]
    /\ cmds \in {WithIds(l) : l \in MatchLists}
    /\ guildPrefix \in PrefixTexts
    /\ hpc = "idle"
    /\ hidx = 0
    /\ hlist = <<>>
    /\ hprefix = <<>>
    /\ hfail = FALSE
    /\ units = {}
    /\ execs = <<>>
    /\ replies = <<>>
    /\ storeReads = 0
    /\ logs = <<>>
    /\ hlog = NoLog

NextMatch ==
    \/ MessageArrives
    \/ HgetallReplies
    \/ GetPrefixReplies
    \/ Part000Iteration
    \/ Part001Iteration
    \/ BotIteration

SpecMatch == InitMatch /\ [][NextMatch]_vars

Unrestricted(cmd) == cmd.roles = {} /\ cmd.channels = {}

Fired(cmd) == TimesExecuted(cmd.id) >= 1

\* C12: a command of type Exact Match fires exactly when the content equals its
\* trigger text, case-sensitively, and never when the trigger text is empty
\* (part_000 and part_001).
C12_ExactMatchFiresIffEqual ==
    (hv \in {"part000", "part001"} /\ hpc = "done")
        => \A i \in DOMAIN cmds :
               (cmds[i].type = "Exact Match" /\ Unrestricted(cmds[i]))
                   => (Fired(cmds[i])
                          <=> (cmds[i].trigger # <<>> /\ msg.content = cmds[i].trigger))

\* the command's own prefix when set, otherwise the guild's, otherwise "!"
EffectivePrefix(cmd, configured) ==
    IF cmd.prefix # <<>> THEN cmd.prefix
    ELSE IF configured # <<>> THEN configured
    ELSE <<"!">>

\* C13: a command of type Prefix (with a trigger text) fires exactly when the
\* content starts, case-sensitively, with effectivePrefix + triggerText
\* (part_000, part_001 and bot.js).
C13_PrefixFiresIffEffectivePrefix ==
    hpc = "done"
        => \A i \in DOMAIN cmds :
               (cmds[i].type = "Command (prefix)" /\ cmds[i].trigger # <<>>
                    /\ Unrestricted(cmds[i]))
                   => (Fired(cmds[i])
                          <=> StartsWith(msg.content,
                                         EffectivePrefix(cmds[i], guildPrefix)
                                             \o cmds[i].trigger))

\* C14: a command whose trigger text is empty never fires, whatever its trigger
\* type and the content (part_000 and part_001).
C14_EmptyTriggerNeverFires ==
    hv \in {"part000", "part001"}
        => \A i \in DOMAIN cmds : cmds[i].trigger = <<>> => ~Fired(cmds[i])

RolesAllow(cmd, m) == cmd.roles = {} \/ cmd.roles \cap m.roles # {}

ChannelsAllow(cmd, m) == cmd.channels = {} \/ m.channel \in cmd.channels

\* the handler's trigger rule alone, before the restrictions
TriggerFired(h, cmd, m) ==
    IF h = "part001" THEN Part001Triggered(cmd, m.content)
    ELSE Part000Match(cmd, m.content, GlobalPrefix(guildPrefix))

\* C15: in part_000 and part_001 a command is executed only if its role list is
\* empty or holds a role of the author, and its channel list is empty or holds
\* the channel; a command that fails a restriction gives no execution and no
\* reply, and when the handler has ended the commands that fired and pass their
\* restrictions have all been executed.
C15_RestrictionsGateExecution ==
    hv \in {"part000", "part001"}
        => /\ \A i \in DOMAIN cmds :
                  Fired(cmds[i]) => (RolesAllow(cmds[i], msg) /\ ChannelsAllow(cmds[i], msg))
           /\ \A i \in DOMAIN cmds :
                  ~(RolesAllow(cmds[i], msg) /\ ChannelsAllow(cmds[i], msg))
                      => \A j \in DOMAIN replies : replies[j].id # cmds[i].id
           /\ hpc = "done"
                  => \A i \in DOMAIN cmds :
                         (TriggerFired(hv, cmds[i], msg) /\ RolesAllow(cmds[i], msg)
                              /\ ChannelsAllow(cmds[i], msg))
                             => Fired(cmds[i])

\* a command that fired fails its channel restriction and is skipped, and the
\* command after it is executed
C15_Witness ==
    /\ hv = "part001"
    /\ hpc = "done"
    /\ Len(cmds) = 2
    /\ TriggerFired(hv, cmds[1], msg)
    /\ RolesAllow(cmds[1], msg)
    /\ ~ChannelsAllow(cmds[1], msg)
    /\ execs = <<cmds[2].id>>
    /\ replies = <<[id |-> cmds[2].id, kind |-> "output"]>>

(***************************************************************************)
(* Claims about the routes that save a command.                            *)
(***************************************************************************)
\* C16: with save-command of part_000 (and addCommand), whatever the requests,
\* their isEdit flags and their interleaving, the guild never has more stored
\* commands than the maximum.
C16_CommandCountWithinLimit ==
    sv \in {"part000", "auth"} => Len(cmds) <= MAX_COMMANDS

\* C17: on every write path, no stored command has code longer than the maximum.
C17_StoredCodeWithinLimit ==
    sv \in SavePrograms => \A i \in DOMAIN cmds : cmds[i].codeLen <= MAX_COMMAND_LENGTH

NoSaveInFlight == \A s \in Savers : spc[s] \in {"idle", "done"}

\* C18: once the save requests have been answered, each saved command is stored
\* exactly once, however often it was saved.
C18_SaveReplacesById ==
    (sv \in {"part000", "index", "bot"} /\ NoSaveInFlight)
        => /\ \A i, j \in DOMAIN cmds : cmds[i].key = cmds[j].key => i = j
           /\ \A s \in Savers :
                  sres[s] = "saved" => \E i \in DOMAIN cmds : cmds[i].key = sreq[s].key

(***************************************************************************)
(* Claims about the scope of the rate limits.                              *)
(***************************************************************************)
\* C19: a message is denied only for what happened in its own guild: the
\* messages of its user counted in that guild exceed the user ceiling, or the
\* guild's count exceeds the guild ceiling; the user's messages in another
\* guild never make it denied.
C19_DeniedOnlyByOwnGuild ==
    \A p \in Callers :
        cret[p] = "false" => (cwhy[p].own > USER_MAX \/ cwhy[p].guild > GUILD_MAX)

(***************************************************************************)
(* Claims about the audit log.                                             *)
(***************************************************************************)
\* C20: when no logCommandExecution call is in progress, whatever calls ran
\* before (concurrent ones, and ones whose ltrim was rejected after their
\* lpush), the list holds at most the kept number of entries (10000 in the
\* code), and they are the newest ones, newest first.
C20_LogWithinCapacity ==
    (\A g \in LogCalls : gpc[g] = "idle")
        => /\ Len(logs) <= LOG_KEEP + 1
           /\ \A i \in DOMAIN logs : logs[i].id = gseq - i + 1

(***************************************************************************)
(* The reply paths: what each of them hands to Discord for an output of    *)
(* a command.                                                              *)
(***************************************************************************)
OUTPUT_CAP == 5         \* 2000 in index.js:367, scaled
Mark == <<".", ".", ".">>
Fence == <<"bq", "bq", "bq">>      \* three backquotes
Newline == <<"nl">>                \* a line feed

\* String.prototype.substring(start, end), 0 <= start <= end
Substring(s, start, end) == SubSeq(s, start + 1, Min(end, Len(s)))

OutputPaths == {"send", "reply", "bot", "part000", "part001"}

RECURSIVE StringsUpTo(_)
StringsUpTo(n) ==
    IF n = 0 THEN {<<>>}
    ELSE LET shorter == StringsUpTo(n - 1)
         IN  shorter \cup {Append(t, c) : t \in {u \in shorter : Len(u) = n - 1}, c \in {"a", "b"}}

OutTexts == StringsUpTo(MaxOutLen)

\* index.js createSandbox, message.channel.send:
\*   if (content.length > 2000) content = content.substring(0, 1997) + '...'
ChannelSend(content) ==
    IF Len(content) > OUTPUT_CAP
       THEN Substring(content, 0, OUTPUT_CAP - Len(Mark)) \o Mark
       ELSE content

\* index.js createSandbox: reply: (content) => message.reply(content)
\* part_000 / part_001: reply: (t) => message.reply(t), message.reply(out)
SandboxReply(content) == content

\* bot.js: message.reply of the result between two fences of three backquotes
BotReply(result) == Fence \o Newline \o result \o Newline \o Fence

HandedToDiscord(path, text) ==
    CASE path = "send" -> ChannelSend(text)
      [] path = "bot" -> BotReply(text)
      [] OTHER -> SandboxReply(text)

InitOutput ==
    /\ CoreIdle
    /\ RunIdle
    /\ KillIdle
    /\ SessIdle
    /\ opath \in OutputPaths
    /\ otext \in OutTexts
    /\ osent = NotSent

outFrame == <<coreVars, runVars, killVars, sessVars>>

OutputSent ==
    /\ osent = NotSent
    /\ osent' = HandedToDiscord(opath, otext)
    /\ UNCHANGED <<opath, otext, outFrame>>

NextOutput == OutputSent

SpecOutput == InitOutput /\ [][NextOutput]_vars

\* C21: an output longer than the cap is handed to Discord cut to exactly the
\* cap length, its kept part being the beginning of the output and its end
\* the truncation mark, on every reply path.
C21_LongOutputTruncated ==
    (osent # NotSent /\ Len(otext) > OUTPUT_CAP)
        => /\ Len(osent) = OUTPUT_CAP
           /\ osent = SubSeq(otext, 1, OUTPUT_CAP - Len(Mark)) \o Mark

(***************************************************************************)
(* part_001: executions of Python and Golang commands started by           *)
(* concurrent messageCreate handlers.  runPython and runGo spawn a         *)
(* subprocess with exec (no timeout option) and resolve in its callback.   *)
(* The source of execution i is written as i.                              *)
(***************************************************************************)
CONCURRENCY == 2        \* 5 in part_002:15, scaled

InitRun ==
    /\ CoreIdle
    /\ ExtIdle

runFrame == <<cdVars, rlVars, callerVars, msgVars, cacheVars, saveVars, logVars, outVars, killVars, sessVars>>

\* the handler reaches `await runPython(cmd.code)`: exec spawns python3 -c
PythonStarts(i, kind) ==
    /\ xpc[i] = "idle"
    /\ xpc' = [xpc EXCEPT ![i] = "compiled"]
    /\ xlang' = [xlang EXCEPT ![i] = "Python"]
    /\ xkind' = [xkind EXCEPT ![i] = kind]
    /\ UNCHANGED <<now, xfile, xran, files, runFrame>>

\* the handler reaches `await runGo(cmd.code)`:
\*   filename = `temp_${Date.now()}.go`; fs.writeFileSync(filename, code); exec(`go run ...`)
GoStarts(i, kind) ==
    /\ xpc[i] = "idle"
    /\ xpc' = [xpc EXCEPT ![i] = "started"]
    /\ xlang' = [xlang EXCEPT ![i] = "Golang"]
    /\ xkind' = [xkind EXCEPT ![i] = kind]
    /\ xfile' = [xfile EXCEPT ![i] = now]
    /\ files' = [files EXCEPT ![now] = i]
    /\ UNCHANGED <<now, xran, runFrame>>

\* the same, but the write fails after the file was created (disk full) or
\* exec throws: the promise executor throws, nothing unlinks the file
GoStartThrows(i) ==
    /\ xpc[i] = "idle"
    /\ xpc' = [xpc EXCEPT ![i] = "threw"]
    /\ xlang' = [xlang EXCEPT ![i] = "Golang"]
    /\ xfile' = [xfile EXCEPT ![i] = now]
    /\ files' = [files EXCEPT ![now] = i]
    /\ UNCHANGED <<now, xkind, xran, runFrame>>

\* the subprocess `go run temp_<n>.go` reads the file of that name
GoCompiles(i) ==
    /\ xpc[i] = "started"
    /\ xpc' = [xpc EXCEPT ![i] = "compiled"]
    /\ xran' = [xran EXCEPT ![i] = IF files[xfile[i]] = 0 THEN -1 ELSE files[xfile[i]]]
    /\ UNCHANGED <<now, xlang, xkind, xfile, files, runFrame>>

\* the subprocess has exited and exec calls back:
\*   if (fs.existsSync(filename)) fs.unlinkSync(filename); resolve(...)
\* a program that does not end, or a source that was missing, aside: a missing
\* source makes go run exit at once whatever the program is
SubprocessCallback(i) ==
    /\ xpc[i] = "compiled"
    /\ xkind[i] = "ok" \/ xran[i] = -1
    /\ xpc' = [xpc EXCEPT ![i] = "done"]
    /\ files' = IF xlang[i] = "Golang" THEN [files EXCEPT ![xfile[i]] = 0] ELSE files
    /\ UNCHANGED <<now, xlang, xkind, xfile, xran, runFrame>>

\* Date.now() moves on
RunClockAdvances ==
    /\ now < MaxRunNow
    /\ now' = now + 1
    /\ UNCHANGED <<runVars, runFrame>>

NextRun ==
    \/ \E i \in Runs, kind \in {"ok", "loop"} : PythonStarts(i, kind)
    \/ \E i \in Runs, kind \in {"ok", "loop"} : GoStarts(i, kind)
    \/ \E i \in Runs : GoStartThrows(i)
    \/ \E i \in Runs : GoCompiles(i)
    \/ \E i \in Runs : SubprocessCallback(i)
    \/ RunClockAdvances

SpecRun == InitRun /\ [][NextRun]_vars
SpecRunFair == SpecRun /\ WF_vars(NextRun)

Running == {i \in Runs : xpc[i] \in {"started", "compiled"}}

\* C22: at every moment at most the configured number of executions (the
\* queue's concurrency) is running, over all messages.
C22_RunningWithinConcurrency == Cardinality(Running) <= CONCURRENCY

\* C25: every temp file runGo creates is deleted in the end, whichever way the
\* invocation goes: a file in the working directory leads to a working
\* directory with no temp file.
C25_TempFileDeleted == (\E t \in 0..MaxRunNow : files[t] # 0) ~> (\A t \in 0..MaxRunNow : files[t] = 0)

\* C26: two runGo invocations running at the same time never use the same
\* temp file name, and the go run of an invocation compiles that invocation's
\* own source.
C26_NoSharedTempFile ==
    /\ \A i, j \in Runs :
           (i # j /\ xlang[i] = "Golang" /\ xlang[j] = "Golang" /\ i \in Running /\ j \in Running)
               => xfile[i] # xfile[j]
    /\ \A i \in Runs : xran[i] # 0 => xran[i] = i

(***************************************************************************)
(* Claims about the audit entries of the index.js handler.                 *)
(***************************************************************************)
EntriesOf(id) == {k \in DOMAIN logs : logs[k].id = id}

\* C23: when the index.js handler has returned, every command it ran was run
\* once and has exactly one audit entry, whose success flag tells whether the
\* sandbox run succeeded.
C23_OneEntryPerInvocation ==
    (hv = "index" /\ hpc = "done")
        => \A j \in DOMAIN execs :
               /\ TimesExecuted(execs[j]) = 1
               /\ Cardinality(EntriesOf(execs[j])) = 1
               /\ \A k \in EntriesOf(execs[j]) :
                      logs[k].success
                          = (\E i \in DOMAIN hlist : hlist[i].id = execs[j] /\ hlist[i].code = "ok")

(***************************************************************************)
(* Claims about the throughput counters of checkRateLimit.                 *)
(***************************************************************************)
\* C24: a throughput counter that has been incremented is reset in the end
\* (its window elapses and the key is gone), whatever the interleaving of the
\* calls and also when a call stops between its incr and its pexpire.
C24_CounterResets == \A k \in CntKeys : (cnt[k] > 0) ~> (cnt[k] = 0)

(***************************************************************************)
(* Claims about the order of the executions of one message.                *)
(***************************************************************************)
\* C27: in the part_000 and part_001 handlers, while the subprocess started for
\* a command is running the handler is still at that command: it has not
\* gone on to the next command and it has not returned.
C27_NextWaitsForCurrent ==
    hv \in {"part000", "part001"}
        => \A u \in units : hpc \notin {"done", "rejected"} /\ hidx = u.id

\* C28: every checkRateLimit call whose incr calls are answered adds exactly one
\* to the user counter and then exactly one to the guild counter and changes
\* no other counter, whether it is going to be admitted or denied; a call
\* over the user ceiling still adds one to the guild counter.
C28_BothCountersIncremented ==
    [][\A p \in Callers :
          /\ (cpc[p] = "incrUser" /\ cpc'[p] = "incrGuild")
                 => cnt' = [cnt EXCEPT ![<<"ratelimit", "user", cuser[p]>>] = @ + 1]
          /\ (cpc[p] = "incrGuild" /\ cpc'[p] # "incrGuild" /\ cret'[p] # "threw")
                 => cnt' = [cnt EXCEPT ![<<"ratelimit", "guild", cguild[p]>>] = @ + 1]]_vars

\* a call was denied by the user ceiling alone, and took a unit of its guild's counter
C28_Witness ==
    \E p \in Callers : cret[p] = "false" /\ cwhy[p].guild >= 1 /\ cwhy[p].guild <= GUILD_MAX

(***************************************************************************)
(* part_000:20-35: the handler with the kill switch, for concurrent        *)
(* messages.  The module ./killswitch is not among the sources: isEnabled  *)
(* reads a flag, disableGlobally is an awaited call that clears it, either *)
(* before or after its own await.                                          *)
(***************************************************************************)
InitKill ==
    /\ CoreIdle
    /\ OutIdle
    /\ RunIdle
    /\ SessIdle
    /\ enabled \in BOOLEAN            \* what loadGlobalState found
    /\ kpc = [m \in KillMessages |-> "idle"]
    /\ kstop = {}
    /\ ktouched = {}
    /\ khandled = {}
    /\ kreplied = {}

killFrame == <<coreVars, outVars, runVars, sessVars>>

\* the handler up to its first await:
\*   if (bot || !guild) return; if (!isEnabled()) return;
\*   if (content === '!emergency stop') await disableGlobally(); else await checkRateLimit(...)
KillMessageCreate(m, bot, hasGuild, stop) ==
    /\ kpc[m] = "idle"
    /\ IF IgnoredMessage(bot, hasGuild) \/ ~enabled
          THEN /\ kpc' = [kpc EXCEPT ![m] = "done"]
               /\ UNCHANGED <<enabled, kstop>>
       ELSE IF stop
          THEN /\ kpc' = [kpc EXCEPT ![m] = "disable"]
               /\ kstop' = kstop \cup {m}
               /\ enabled' \in {enabled, FALSE}
          ELSE /\ kpc' = [kpc EXCEPT ![m] = "rate"]
               /\ UNCHANGED <<enabled, kstop>>
    /\ UNCHANGED <<ktouched, khandled, kreplied, killFrame>>

\* await disableGlobally() is over; return message.reply("Global command system disabled.")
DisableGloballyReturns(m) ==
    /\ kpc[m] = "disable"
    /\ enabled' = FALSE
    /\ kpc' = [kpc EXCEPT ![m] = "done"]
    /\ UNCHANGED <<kstop, ktouched, khandled, kreplied, killFrame>>

\* await checkRateLimit(...) is over: it has incremented the counters;
\*   if (!allowed) return message.reply("Rate limit exceeded"); await handleMessage(message)
CheckRateLimitReturns(m, allowed) ==
    /\ kpc[m] = "rate"
    /\ ktouched' = ktouched \cup {m}
    /\ kpc' = [kpc EXCEPT ![m] = IF allowed THEN "handle" ELSE "done"]
    /\ kreplied' = IF allowed THEN kreplied ELSE kreplied \cup {m}
    /\ UNCHANGED <<enabled, kstop, khandled, killFrame>>

\* await handleMessage(message) is over
HandleMessageReturns(m) ==
    /\ kpc[m] = "handle"
    /\ khandled' = khandled \cup {m}
    /\ kpc' = [kpc EXCEPT ![m] = "done"]
    /\ UNCHANGED <<enabled, kstop, ktouched, kreplied, killFrame>>

NextKill ==
    \/ \E m \in KillMessages, bot \in BOOLEAN, hasGuild \in BOOLEAN, stop \in BOOLEAN :
            KillMessageCreate(m, bot, hasGuild, stop)
    \/ \E m \in KillMessages : DisableGloballyReturns(m)
    \/ \E m \in KillMessages, allowed \in BOOLEAN : CheckRateLimitReturns(m, allowed)
    \/ \E m \in KillMessages : HandleMessageReturns(m)

SpecKill == InitKill /\ [][NextKill]_vars

\* C29: the emergency stop message is never rate-limited or handled, and in a
\* step taken while isEnabled() is false no rate-limit counter is touched, no
\* message is handled and no rate-limit reply is sent.
C29_KillSwitchStopsEverything ==
    [][/\ kstop' \cap (ktouched' \cup khandled') = {}
       /\ ~enabled => (ktouched' = ktouched /\ khandled' = khandled /\ kreplied' = kreplied)]_vars

(***************************************************************************)
(* index.js: createSession and validateSession for one session id, in      *)
(* production mode (NODE_ENV === 'production').  Each await of a redis     *)
(* call is one step.  A restart of the process empties sessionCache.       *)
(***************************************************************************)
SESSION_LIFE == 3       \* 24 * 60 * 60 * 1000 ms in index.js:222, scaled to clock ticks

IpAddresses == {"ip1", "ip2"}

InitSess ==
    /\ CoreIdle
    /\ ExtIdle

sessFrame == <<cdVars, rlVars, callerVars, msgVars, cacheVars, saveVars, logVars, outVars,
               runVars, killVars>>

\* GET session:<id>: the value, unless the key's TTL has run out
StoredSession == IF sredis.ttlEnd > now THEN sredis.data ELSE NoSession

\* SETEX session:<id> 86400 value
SessionSetex(data) == [data |-> data, ttlEnd |-> now + SESSION_LIFE]

\* createSession(discordToken, userData, ipAddress) up to await redis.setex
CreateSessionStarts(ip) ==
    /\ cspc = "idle"
    /\ sip' = ip
    /\ sredis' = SessionSetex([ipAddress |-> ip, expiresAt |-> now + SESSION_LIFE])
    /\ cspc' = "setex"
    /\ UNCHANGED <<now, scache, vpc, vip, vgot, vret, sessFrame>>

\* sessionCache.set(sessionId, sessionData); return sessionId
CreateSessionReturns ==
    /\ cspc = "setex"
    /\ scache' = [ipAddress |-> sip, expiresAt |-> sredis.data.expiresAt]
    /\ cspc' = "done"
    /\ UNCHANGED <<now, sredis, sip, vpc, vip, vgot, vret, sessFrame>>

\* validateSession(sessionId, ipAddress) up to its first await or return; the
\* session id is one createSession returned, so verifySessionId accepts it
ValidateSessionStarts(ip) ==
    /\ cspc = "done"
    /\ vpc = "idle"
    /\ vip' = ip
    /\ IF scache # NoSession
          THEN IF scache.expiresAt <= now
                  THEN /\ scache' = NoSession
                       /\ vpc' = "del"
                       /\ vret' = "none"
               ELSE IF ip # "none" /\ scache.ipAddress # ip
                  THEN /\ vret' = "null"
                       /\ UNCHANGED <<scache, vpc>>
               ELSE /\ vret' = "session"
                    /\ UNCHANGED <<scache, vpc>>
          ELSE /\ vpc' = "get"
               /\ vret' = "none"
               /\ UNCHANGED scache
    /\ UNCHANGED <<now, sredis, sip, cspc, vgot, sessFrame>>

\* await redis.del(`session:${sessionId}`); return null
ValidateDelReplies ==
    /\ vpc \in {"del", "delStored"}
    /\ sredis' = NoStored
    /\ vpc' = "idle"
    /\ vret' = "null"
    /\ vgot' = NoSession
    /\ UNCHANGED <<now, scache, sip, cspc, vip, sessFrame>>

\* const sessionData = await redis.get(`session:${sessionId}`) and what follows,
\* up to the next await
ValidateGetReplies ==
    /\ vpc = "get"
    /\ IF StoredSession = NoSession
          THEN /\ vpc' = "idle"
               /\ vret' = "null"
               /\ UNCHANGED <<scache, vgot>>
       ELSE IF StoredSession.expiresAt <= now
          THEN /\ vpc' = "delStored"
               /\ UNCHANGED <<scache, vgot, vret>>
       ELSE /\ scache' = StoredSession
            /\ vgot' = StoredSession
            /\ vpc' = "setex"
            /\ UNCHANGED vret
    /\ UNCHANGED <<now, sredis, sip, cspc, vip, sessFrame>>

\* await redis.setex(`session:${sessionId}`, 24 * 60 * 60, ...); return session
ValidateSetexReplies ==
    /\ vpc = "setex"
    /\ sredis' = SessionSetex(vgot)
    /\ vpc' = "idle"
    /\ vret' = "session"
    /\ vgot' = NoSession
    /\ UNCHANGED <<now, scache, sip, cspc, vip, sessFrame>>

\* the process restarts: sessionCache is empty, the call in progress is gone
ProcessRestarts ==
    /\ cspc = "done"
    /\ scache # NoSession \/ vpc # "idle"
    /\ scache' = NoSession
    /\ vpc' = "idle"
    /\ vip' = "none"
    /\ vgot' = NoSession
    /\ vret' = "none"
    /\ UNCHANGED <<now, sredis, sip, cspc, sessFrame>>

SessClockAdvances ==
    /\ now < MaxSessNow
    /\ now' = now + 1
    /\ UNCHANGED <<sessVars, sessFrame>>

NextSess ==
    \/ \E ip \in IpAddresses : CreateSessionStarts(ip)
    \/ CreateSessionReturns
    \/ \E ip \in IpAddresses \cup {"none"} : ValidateSessionStarts(ip)
    \/ ValidateDelReplies
    \/ ValidateGetReplies
    \/ ValidateSetexReplies
    \/ ProcessRestarts
    \/ SessClockAdvances

SpecSess == InitSess /\ [][NextSess]_vars

\* C30: validateSession called with an ipAddress that differs from the one the
\* session was created with does not return the session, whether the session
\* is found in sessionCache or loaded from Redis.
C30_OtherIpGetsNull == (vret = "session" /\ vip # "none") => vip = sip

====
